---- MODULE Spec2Model ----
(***************************************************************************)
(* Model of the christmas_show runtime: the channel registry               *)
(* (gpio_controller.py), the pattern library (patterns.py) and the show    *)
(* scheduler with its timestamp thread (show_runner.py).                    *)
(*                                                                         *)
(* Time is an integer number of ticks of 0.01 s; TicksPerSecond ticks make  *)
(* a second.  Every sleep the source writes as a literal is a whole number  *)
(* of ticks; a computed one is cut to whole ticks.                          *)
(* The clock advances when some thread waits for it, and up to MaxJitter    *)
(* times when nobody does (late wake-ups, slow steps).  A thread that is    *)
(* held up for a second is the timestamp thread in SpecStall.               *)
(***************************************************************************)
EXTENDS Integers, Sequences, FiniteSets, TLC

VARIABLES
    now,          \* time.time(), in ticks
    jitter,       \* number of clock ticks nobody was waiting for
    channels,     \* gpio.channels: name -> BOOLEAN (TRUE = on)
    frame,        \* the activation of the pattern routine being executed
    pc,           \* position of run_show (or "harness" for a direct caller)
    nSegs,        \* len(show["sections"])
    idx,          \* number of sections the for loop has fetched
    seg,          \* the section being handled
    bpm,          \* show.get("bpm"): <<>> for None, <<b>> for the number b
    busy,         \* pygame.mixer.music.get_busy()
    start_time,   \* value returned by play_song
    outcome,      \* per fetched section: what run_show did with it
    warnings,     \* number of "Pattern not found" lines printed
    exc,          \* exception propagating out of run_show's try block
    stop_event,   \* threading.Event
    deadline,     \* end of the main thread's time.sleep(0.1) or join(timeout)
    rpc,          \* position of timestamp_printer
    next_t,       \* timestamp_printer's local next_t, in ticks
    rwake,        \* end of timestamp_printer's time.sleep(0.05)
    reports,      \* boundaries printed by timestamp_printer, in order
    calls,        \* number of routine calls the direct caller has made
    call          \* the call a caller of the normalizer made last

vars == <<now, jitter, channels, frame, pc, nSegs, idx, seg, bpm, busy,
          start_time, outcome, warnings, exc, stop_event, deadline,
          rpc, next_t, rwake, reports, calls, call>>

schedVars == <<pc, nSegs, idx, seg, bpm, busy, start_time, outcome,
               warnings, exc, stop_event, deadline>>
reporterVars == <<rpc, next_t, rwake, reports>>

----------------------------------------------------------------------------
(* Bounds *)
MaxJitter == 1
MaxChannels == 2
MaxDuration == 2
MaxSegs == 2
MaxStart == 1
MaxAudio == 210
MaxWatch == 20

(* Clock resolution and the source's time constants, in ticks *)
TicksPerSecond == 100
HoldTicks == TicksPerSecond \div 2      \* time.sleep(0.5) in finale_flash
ReportTicks == TicksPerSecond           \* next_t += 1.0
JoinTicks == TicksPerSecond             \* join(timeout=1.0)
DrainPollTicks == TicksPerSecond \div 10  \* time.sleep(0.1) in the drain loop
ReportPollTicks == TicksPerSecond \div 20 \* time.sleep(0.05) in timestamp_printer
ThreadJoinTicks == TicksPerSecond \div 10  \* thread.join(timeout=0.1)
FrameRate == 60                         \* clock.tick(60)

----------------------------------------------------------------------------
(* patterns.py: the channel names the patterns are written against *)
TREE_NAMES == <<"T1", "T2", "T3", "BigTree">>
BULB_NAMES == <<"B1", "B2", "B3", "B4">>
pairs == << <<"T1", "B1">>, <<"T2", "B2">>, <<"T3", "B3">>, <<"BigTree", "B4">> >>

Range(s) == {s[i] : i \in 1..Len(s)}
ChannelNames == Range(TREE_NAMES) \cup Range(BULB_NAMES)

(* Variant: all_off inverts every channel. *)
gpio_all_off_inverts(ch) == [n \in DOMAIN ch |-> ~ch[n]]

(* gpio_controller.py: GPIOController *)
gpio_on(ch, name) == IF name \in DOMAIN ch THEN [ch EXCEPT ![name] = TRUE] ELSE ch
gpio_off(ch, name) == IF name \in DOMAIN ch THEN [ch EXCEPT ![name] = FALSE] ELSE ch
gpio_all_on(ch) == [n \in DOMAIN ch |-> TRUE]
gpio_all_off(ch) == [n \in DOMAIN ch |-> FALSE]

(* Variant: the guard is missing and the assignment creates the entry. *)
_safe_on_adds(ch, name) ==
    [n \in DOMAIN ch \cup {name} |-> IF n = name THEN TRUE ELSE ch[n]]

(* patterns.py: _safe_on, _safe_off *)
_safe_on(ch, name) == IF name \in DOMAIN ch THEN gpio_on(ch, name) ELSE ch
_safe_off(ch, name) == IF name \in DOMAIN ch THEN gpio_off(ch, name) ELSE ch

RECURSIVE SafeOnAll(_, _)
SafeOnAll(ch, names) ==
    IF names = <<>> THEN ch ELSE SafeOnAll(_safe_on(ch, Head(names)), Tail(names))
RECURSIVE SafeOffAll(_, _)
SafeOffAll(ch, names) ==
    IF names = <<>> THEN ch ELSE SafeOffAll(_safe_off(ch, Head(names)), Tail(names))

AllOff(ch) == \A n \in DOMAIN ch : ~ch[n]
AllOn(ch) == \A n \in DOMAIN ch : ch[n]

----------------------------------------------------------------------------
(* Activation record of a pattern routine.                                  *)
NoFrame ==
    [fn |-> "none", pc |-> "idle", duration |-> 0, interval |-> 0,
     on_fraction |-> 0, end |-> 0, state |-> FALSE, names |-> <<>>,
     valid_pairs |-> <<>>, idx |-> 0, phase |-> "none", wake |-> 0,
     exc |-> "none", pre |-> <<>>, t0 |-> 0, ticks |-> 0]

(* Variant: wave_all keeps a pair as soon as its tree is in the registry. *)
NewFrame_pairs_by_tree(fn, duration, interval, on_fraction) ==
    [NoFrame EXCEPT
        !.fn = fn, !.pc = "called", !.duration = duration,
        !.interval = interval, !.on_fraction = on_fraction,
        !.names = CASE fn \in {"wave_trees", "trees_cascade"} ->
                         SelectSeq(TREE_NAMES, LAMBDA n : n \in DOMAIN channels)
                    [] fn = "chase_bulbs" ->
                         SelectSeq(BULB_NAMES, LAMBDA n : n \in DOMAIN channels)
                    [] OTHER -> <<>>,
        !.valid_pairs = IF fn = "wave_all"
                        THEN SelectSeq(pairs, LAMBDA p : p[1] \in DOMAIN channels)
                        ELSE <<>>,
        !.phase = IF fn = "trees_cascade" THEN "on" ELSE "none",
        !.pre = channels, !.t0 = now]

(* Entry of a routine called as fn(gpio, duration=..., interval=...): the   *)
(* locals get the values the first statements of the routine give them.     *)
NewFrame(fn, duration, interval, on_fraction) ==
    [NoFrame EXCEPT
        !.fn = fn, !.pc = "called", !.duration = duration,
        !.interval = interval, !.on_fraction = on_fraction,
        !.names = CASE fn \in {"wave_trees", "trees_cascade"} ->
                         SelectSeq(TREE_NAMES, LAMBDA n : n \in DOMAIN channels)
                    [] fn = "chase_bulbs" ->
                         SelectSeq(BULB_NAMES, LAMBDA n : n \in DOMAIN channels)
                    [] OTHER -> <<>>,
        !.valid_pairs = IF fn = "wave_all"
                        THEN SelectSeq(pairs, LAMBDA p : p[1] \in DOMAIN channels
                                                      /\ p[2] \in DOMAIN channels)
                        ELSE <<>>,
        !.phase = IF fn = "trees_cascade" THEN "on" ELSE "none",
        !.pre = channels, !.t0 = now]

(* Variant: the deadline is taken one step short of the duration. *)
EndOf_less_one_step ==
    IF frame.pc = "called" THEN now + frame.duration - frame.interval ELSE frame.end

(* The routine is at its entry, or its time.sleep has returned. *)
Ready == frame.pc = "called" \/ (frame.pc = "sleep" /\ now >= frame.wake)
(* end = time.time() + duration, computed at entry *)
EndOf == IF frame.pc = "called" THEN now + frame.duration ELSE frame.end

(* time.sleep(d): raises ValueError for a negative d *)
Sleep(f, d) ==
    IF d < 0 THEN [f EXCEPT !.pc = "raised", !.exc = "ValueError"]
    ELSE [f EXCEPT !.pc = "sleep", !.wake = now + d, !.ticks = f.ticks + 1]

Return(f) == [f EXCEPT !.pc = "returned"]

----------------------------------------------------------------------------
(* patterns.py: the routines.  One firing of a routine's action runs it     *)
(* from its entry, or from the return of its time.sleep, up to its next     *)
(* time.sleep, its return or its raise.  Only the calling thread touches    *)
(* the channels, so nothing can observe the steps in between.               *)

patFrame == <<now, jitter, schedVars, reporterVars, calls, call>>

all_off ==
    /\ frame.fn = "all_off" /\ frame.pc = "called"
    /\ channels' = gpio_all_off(channels)
    /\ frame' = Return(frame)
    /\ UNCHANGED patFrame

all_on ==
    /\ frame.fn = "all_on" /\ frame.pc = "called"
    /\ channels' = gpio_all_on(channels)
    /\ frame' = Return(frame)
    /\ UNCHANGED patFrame

(* Variant: the closing gpio.all_off() is missing. *)
blink_all_without_final_off ==
    /\ frame.fn = "blink_all" /\ Ready
    /\ IF now < EndOf
       THEN /\ channels' = IF frame.state THEN gpio_all_off(channels)
                                          ELSE gpio_all_on(channels)
            /\ frame' = Sleep([frame EXCEPT !.end = EndOf, !.state = ~frame.state],
                              frame.interval)
       ELSE /\ channels' = channels
            /\ frame' = Return([frame EXCEPT !.end = EndOf])
    /\ UNCHANGED patFrame

(* Variant: the first tick switches everything off (state starts True). *)
blink_all_starts_off ==
    /\ frame.fn = "blink_all" /\ Ready
    /\ IF now < EndOf
       THEN /\ channels' = IF frame.state THEN gpio_all_on(channels)
                                          ELSE gpio_all_off(channels)
            /\ frame' = Sleep([frame EXCEPT !.end = EndOf, !.state = ~frame.state],
                              frame.interval)
       ELSE /\ channels' = gpio_all_off(channels)
            /\ frame' = Return([frame EXCEPT !.end = EndOf])
    /\ UNCHANGED patFrame

blink_all ==
    /\ frame.fn = "blink_all" /\ Ready
    /\ IF now < EndOf
       THEN /\ channels' = IF frame.state THEN gpio_all_off(channels)
                                          ELSE gpio_all_on(channels)
            /\ frame' = Sleep([frame EXCEPT !.end = EndOf, !.state = ~frame.state],
                              frame.interval)
       ELSE /\ channels' = gpio_all_off(channels)
            /\ frame' = Return([frame EXCEPT !.end = EndOf])
    /\ UNCHANGED patFrame

(* Variant: the first tick lights the trees (state starts True). *)
alternate_trees_and_bulbs_trees_first ==
    /\ frame.fn = "alternate_trees_and_bulbs" /\ Ready
    /\ IF now < EndOf
       THEN /\ channels' = IF ~frame.state
                           THEN SafeOffAll(SafeOnAll(channels, TREE_NAMES), BULB_NAMES)
                           ELSE SafeOnAll(SafeOffAll(channels, TREE_NAMES), BULB_NAMES)
            /\ frame' = Sleep([frame EXCEPT !.end = EndOf, !.state = ~frame.state],
                              frame.interval)
       ELSE /\ channels' = gpio_all_off(channels)
            /\ frame' = Return([frame EXCEPT !.end = EndOf])
    /\ UNCHANGED patFrame

alternate_trees_and_bulbs ==
    /\ frame.fn = "alternate_trees_and_bulbs" /\ Ready
    /\ IF now < EndOf
       THEN /\ channels' = IF frame.state
                           THEN SafeOffAll(SafeOnAll(channels, TREE_NAMES), BULB_NAMES)
                           ELSE SafeOnAll(SafeOffAll(channels, TREE_NAMES), BULB_NAMES)
            /\ frame' = Sleep([frame EXCEPT !.end = EndOf, !.state = ~frame.state],
                              frame.interval)
       ELSE /\ channels' = gpio_all_off(channels)
            /\ frame' = Return([frame EXCEPT !.end = EndOf])
    /\ UNCHANGED patFrame

(* Variant: the routine switches everything off before its early return. *)
wave_trees_clears_first ==
    /\ frame.fn = "wave_trees" /\ Ready
    /\ IF frame.names = <<>>
       THEN /\ frame' = Return([frame EXCEPT !.end = EndOf])
            /\ channels' = gpio_all_off(channels)
       ELSE IF frame.idx = 0 /\ ~(now < EndOf)
       THEN /\ channels' = gpio_all_off(channels)
            /\ frame' = Return([frame EXCEPT !.end = EndOf])
       ELSE /\ channels' = _safe_on(gpio_all_off(channels), frame.names[frame.idx + 1])
            /\ frame' = Sleep([frame EXCEPT !.end = EndOf,
                                 !.idx = (frame.idx + 1) % Len(frame.names)],
                              frame.interval)
    /\ UNCHANGED patFrame

(* Variant: a step lights the next tree without switching the others off. *)
wave_trees_keeps_previous ==
    /\ frame.fn = "wave_trees" /\ Ready
    /\ IF frame.names = <<>>
       THEN /\ frame' = Return([frame EXCEPT !.end = EndOf])
            /\ UNCHANGED channels
       ELSE IF frame.idx = 0 /\ ~(now < EndOf)
       THEN /\ channels' = gpio_all_off(channels)
            /\ frame' = Return([frame EXCEPT !.end = EndOf])
       ELSE /\ channels' = _safe_on(channels, frame.names[frame.idx + 1])
            /\ frame' = Sleep([frame EXCEPT !.end = EndOf,
                                 !.idx = (frame.idx + 1) % Len(frame.names)],
                              frame.interval)
    /\ UNCHANGED patFrame

wave_trees ==
    /\ frame.fn = "wave_trees" /\ Ready
    /\ IF frame.names = <<>>
       THEN /\ frame' = Return([frame EXCEPT !.end = EndOf])
            /\ UNCHANGED channels
       ELSE IF frame.idx = 0 /\ ~(now < EndOf)
       THEN /\ channels' = gpio_all_off(channels)
            /\ frame' = Return([frame EXCEPT !.end = EndOf])
       ELSE /\ channels' = _safe_on(gpio_all_off(channels), frame.names[frame.idx + 1])
            /\ frame' = Sleep([frame EXCEPT !.end = EndOf,
                                 !.idx = (frame.idx + 1) % Len(frame.names)],
                              frame.interval)
    /\ UNCHANGED patFrame

wave_all ==
    /\ frame.fn = "wave_all" /\ Ready
    /\ IF frame.valid_pairs = <<>>
       THEN /\ frame' = Return([frame EXCEPT !.end = EndOf])
            /\ UNCHANGED channels
       ELSE IF frame.idx = 0 /\ ~(now < EndOf)
       THEN /\ channels' = gpio_all_off(channels)
            /\ frame' = Return([frame EXCEPT !.end = EndOf])
       ELSE /\ LET p == frame.valid_pairs[frame.idx + 1]
               IN channels' = _safe_on(_safe_on(gpio_all_off(channels), p[1]), p[2])
            /\ frame' = Sleep([frame EXCEPT !.end = EndOf,
                                 !.idx = (frame.idx + 1) % Len(frame.valid_pairs)],
                              frame.interval)
    /\ UNCHANGED patFrame

(* Variant: the off phase goes back from the last tree to the first. *)
trees_cascade_unwinds ==
    /\ frame.fn = "trees_cascade" /\ Ready
    /\ IF frame.names = <<>>
       THEN /\ frame' = Return([frame EXCEPT !.end = EndOf])
            /\ UNCHANGED channels
       ELSE IF frame.phase = "on" /\ frame.idx = 0 /\ ~(now < EndOf)
       THEN /\ channels' = gpio_all_off(channels)
            /\ frame' = Return([frame EXCEPT !.end = EndOf])
       ELSE LET last == frame.idx + 1 = Len(frame.names)
                name == IF frame.phase = "on" THEN frame.names[frame.idx + 1]
                    ELSE frame.names[Len(frame.names) - frame.idx]
            IN /\ channels' = IF frame.phase = "on" THEN _safe_on(channels, name)
                                                    ELSE _safe_off(channels, name)
               /\ frame' = Sleep([frame EXCEPT
                                     !.end = EndOf,
                                     !.idx = IF last THEN 0 ELSE frame.idx + 1,
                                     !.phase = IF ~last THEN frame.phase
                                               ELSE IF frame.phase = "on" THEN "off"
                                               ELSE "on"],
                                 frame.interval)
    /\ UNCHANGED patFrame

trees_cascade ==
    /\ frame.fn = "trees_cascade" /\ Ready
    /\ IF frame.names = <<>>
       THEN /\ frame' = Return([frame EXCEPT !.end = EndOf])
            /\ UNCHANGED channels
       ELSE IF frame.phase = "on" /\ frame.idx = 0 /\ ~(now < EndOf)
       THEN /\ channels' = gpio_all_off(channels)
            /\ frame' = Return([frame EXCEPT !.end = EndOf])
       ELSE LET last == frame.idx + 1 = Len(frame.names)
                name == frame.names[frame.idx + 1]
            IN /\ channels' = IF frame.phase = "on" THEN _safe_on(channels, name)
                                                    ELSE _safe_off(channels, name)
               /\ frame' = Sleep([frame EXCEPT
                                     !.end = EndOf,
                                     !.idx = IF last THEN 0 ELSE frame.idx + 1,
                                     !.phase = IF ~last THEN frame.phase
                                               ELSE IF frame.phase = "on" THEN "off"
                                               ELSE "on"],
                                 frame.interval)
    /\ UNCHANGED patFrame

chase_bulbs ==
    /\ frame.fn = "chase_bulbs" /\ Ready
    /\ IF frame.names = <<>>
       THEN /\ frame' = Return([frame EXCEPT !.end = EndOf])
            /\ UNCHANGED channels
       ELSE IF ~(now < EndOf)
       THEN /\ channels' = gpio_all_off(channels)
            /\ frame' = Return([frame EXCEPT !.end = EndOf])
       ELSE /\ channels' = _safe_on(gpio_all_off(channels),
                                    frame.names[(frame.idx % Len(frame.names)) + 1])
            /\ frame' = Sleep([frame EXCEPT !.end = EndOf, !.idx = frame.idx + 1],
                              frame.interval)
    /\ UNCHANGED patFrame

(* random.random() < on_fraction, with on_fraction in percent: never true   *)
(* for on_fraction <= 0, always true for on_fraction >= 100.                *)
SparkleOutcomes(ch, on_fraction) ==
    IF on_fraction <= 0 THEN {{}}
    ELSE IF on_fraction >= 100 THEN {DOMAIN ch}
    ELSE SUBSET DOMAIN ch

sparkle ==
    /\ frame.fn = "sparkle" /\ Ready
    /\ IF DOMAIN channels = {}
       THEN /\ frame' = Return([frame EXCEPT !.end = EndOf])
            /\ UNCHANGED channels
       ELSE IF ~(now < EndOf)
       THEN /\ channels' = gpio_all_off(channels)
            /\ frame' = Return([frame EXCEPT !.end = EndOf])
       ELSE /\ \E lit \in SparkleOutcomes(channels, frame.on_fraction) :
                 channels' = [n \in DOMAIN channels |-> n \in lit]
            /\ frame' = Sleep([frame EXCEPT !.end = EndOf], frame.interval)
    /\ UNCHANGED patFrame

finale_flash ==
    /\ frame.fn = "finale_flash" /\ Ready
    /\ IF frame.phase = "hold"
       THEN /\ channels' = gpio_all_off(channels)
            /\ frame' = Return(frame)
       ELSE IF now < EndOf
       THEN /\ channels' = IF frame.state THEN gpio_all_on(channels)
                                          ELSE gpio_all_off(channels)
            /\ frame' = Sleep([frame EXCEPT !.end = EndOf, !.state = ~frame.state],
                              frame.interval)
       ELSE /\ channels' = gpio_all_on(channels)
            /\ frame' = Sleep([frame EXCEPT !.end = EndOf, !.phase = "hold"], HoldTicks)
    /\ UNCHANGED patFrame

PatternStep ==
    \/ all_off \/ all_on \/ blink_all \/ alternate_trees_and_bulbs
    \/ wave_trees \/ wave_all \/ trees_cascade \/ chase_bulbs
    \/ sparkle \/ finale_flash

(* The routines of the library and the keyword parameters each accepts      *)
(* besides duration.                                                        *)
TimedRoutines ==
    {"blink_all", "alternate_trees_and_bulbs", "wave_trees", "wave_all",
     "trees_cascade", "chase_bulbs", "sparkle", "finale_flash"}
OneShotRoutines == {"all_off", "all_on"}
Routines == TimedRoutines \cup OneShotRoutines

IntervalParam(fn) ==
    IF fn \in {"blink_all", "alternate_trees_and_bulbs", "sparkle", "finale_flash"}
    THEN "interval" ELSE "step_interval"
Params(fn) ==
    CASE fn \in OneShotRoutines -> {}
      [] fn = "sparkle" -> {"duration", "interval", "on_fraction"}
      [] OTHER -> {"duration", IntervalParam(fn)}

(* The group a routine is configured for, as present in a registry *)
GroupPresent(fn, ch) ==
    CASE fn \in {"wave_trees", "trees_cascade"} -> Range(TREE_NAMES) \cap DOMAIN ch
      [] fn = "chase_bulbs" -> Range(BULB_NAMES) \cap DOMAIN ch
      [] fn = "wave_all" ->
           UNION {Range(p) : p \in {q \in Range(pairs) : Range(q) \subseteq DOMAIN ch}}
      [] OTHER -> DOMAIN ch

(* The channel names a routine is written against *)
NamesReferred(fn) ==
    CASE fn \in {"wave_trees", "trees_cascade"} -> Range(TREE_NAMES)
      [] fn = "chase_bulbs" -> Range(BULB_NAMES)
      [] fn \in {"alternate_trees_and_bulbs", "wave_all"} -> ChannelNames
      [] OTHER -> {}

----------------------------------------------------------------------------
(* The clock.  A thread waits for the clock when it sleeps until a wake-up  *)
(* time (in a routine, or between two polls for the end of playback), polls *)
(* for a section's start, or waits in join(timeout); the simulator's main   *)
(* thread also inside clock.tick(60), between two turns of one of its       *)
(* loops; the timestamp thread waits for it in its sleep.  The clock        *)
(* advances when the main thread waits and the other thread has no step to  *)
(* take.                                                                    *)
MainWaits ==
    \/ frame.pc = "sleep" /\ now < frame.wake
    \/ pc = "wait" /\ now - start_time < seg.start
    \/ pc = "join" /\ rpc # "done" /\ now < deadline
    \/ pc = "drain_sleep" /\ now < deadline
ReporterReady ==
    \/ rpc \in {"check", "body"}
    \/ rpc \in {"sleep", "stalled"} /\ now >= rwake

(* show_simulator.py: the pattern thread has ended when its routine raised  *)
(* or run_pattern ran to its end; it has a step to take when it has been    *)
(* started and has not made its call yet, at the routine's entry, when its  *)
(* sleep is over, and when the routine has returned and the flag is not     *)
(* set yet.                                                                 *)
ThreadEnded ==
    \/ frame.pc = "raised"
    \/ frame.pc = "returned" /\ call.pattern_thread_done
ThreadReady ==
    \/ Ready
    \/ frame.pc = "calling"
    \/ frame.pc = "returned" /\ ~call.pattern_thread_done
(* pygame.time.Clock.  tick(60) returns once a frame has passed since the   *)
(* clock was made or since its previous return.  The frame is 1/60 s, or    *)
(* that time in whole milliseconds, 16 or 17, as the library counts it: one *)
(* length for a run.  The clock's times are in units of which FrameRate     *)
(* make a tick, so that each of the three is a whole number.                *)
UnitsPerTick == FrameRate
UnitsPerMs == (TicksPerSecond * UnitsPerTick) \div 1000
Frames ==
    {(1000 \div FrameRate) * UnitsPerMs, TicksPerSecond,
     ((1000 \div FrameRate) + 1) * UnitsPerMs}
(* The time t of the main thread, as the clock reads now: a thread that is  *)
(* late is late by whole ticks.                                             *)
After(t) ==
    IF now > t \div UnitsPerTick THEN t + (now - t \div UnitsPerTick) * UnitsPerTick
    ELSE t
(* A call of tick(60) lasts until the frame is over; one made after that    *)
(* returns at once.                                                         *)
TickEnd(last_tick, frm) ==
    IF After(last_tick) > last_tick + frm THEN After(last_tick) ELSE last_tick + frm
(* The simulator's main thread waits inside clock.tick(60) until the frame  *)
(* is over, and in thread.join(timeout).                                    *)
SimulatorWaits ==
    \/ call.in_tick /\ now < call.tick_end \div UnitsPerTick
    \/ pc = "thread_join" /\ ~ThreadEnded /\ now < deadline
(* What ends the two loops that nothing in the program ends comes from      *)
(* outside, MaxWatch ticks after the start at the latest: the song is over  *)
(* by then, and a window in which the loop of lines 349-354 waits for a     *)
(* pattern thread that has died is closed by the user at the loop's first   *)
(* test from then on.                                                       *)
SongOver == pc = "sim_drain" /\ busy /\ now - start_time >= MaxWatch
WindowClosed ==
    /\ pc = "visualize" /\ frame.pc = "raised"
    /\ now - start_time >= MaxWatch

TimeNeeded ==
    IF call.fn = "run_simulation" THEN SimulatorWaits /\ ~ThreadReady
    ELSE MainWaits /\ ~ReporterReady

(* Some thread is between two of its steps, so that a late clock reading is  *)
(* one of its behaviours.                                                   *)
Active ==
    \/ frame.pc \in {"called", "sleep"}
    \/ pc \notin {"harness", "start", "exited"}

Tick ==
    /\ TimeNeeded \/ (jitter < MaxJitter /\ Active)
    /\ now' = now + 1
    /\ jitter' = IF TimeNeeded THEN jitter ELSE jitter + 1
    /\ UNCHANGED <<channels, frame, schedVars, reporterVars, calls, call>>

----------------------------------------------------------------------------
(* A direct caller of the library and of the registry, as test_patterns.py  *)
(* is: it builds a registry, operates channels, and calls one routine with  *)
(* keyword arguments the routine accepts.  The registry operations reach    *)
(* every state of the registry, and a routine reads the clock only          *)
(* relative to its entry, so one call from each of these states stands for  *)
(* a call at any point of a longer sequence of calls.                       *)
NoBpm == <<>>
NoSeg == [pattern |-> "none", start |-> 0, end |-> 0, options |-> <<>>]

(* A registry may hold names no routine is written against. *)
OtherNames == {"Star"}
(* Two registries beyond the small ones: two whole pairs of wave_all, and a  *)
(* whole pair with a tree whose bulb is missing.                            *)
WiderRegistries == {{"T1", "B1", "T2", "B2"}, {"T1", "B1", "T3"}}
Registries ==
    {r \in SUBSET (ChannelNames \cup OtherNames) : Cardinality(r) <= MaxChannels}
       \cup WiderRegistries
Intervals == {-1} \cup (1..2)
Fractions == {0, 50, 100}

(* The routines that go round a group: a call of MaxDuration + 1 ticks at   *)
(* interval 1 lets them come back to the first of two members, and lets     *)
(* trees_cascade start a second cycle.                                      *)
CyclingRoutines == {"wave_trees", "wave_all", "trees_cascade", "chase_bulbs"}

CallerIdle == pc = "harness" /\ frame.pc \in {"idle", "returned", "raised"}

CallOn(name) ==
    /\ CallerIdle
    /\ channels' = gpio_on(channels, name)
    /\ frame' = NoFrame
    /\ UNCHANGED patFrame

CallOff(name) ==
    /\ CallerIdle
    /\ channels' = gpio_off(channels, name)
    /\ frame' = NoFrame
    /\ UNCHANGED patFrame

CallAllOn ==
    /\ CallerIdle
    /\ channels' = gpio_all_on(channels)
    /\ frame' = NoFrame
    /\ UNCHANGED patFrame

CallAllOff ==
    /\ CallerIdle
    /\ channels' = gpio_all_off(channels)
    /\ frame' = NoFrame
    /\ UNCHANGED patFrame

CallPattern(fn, duration, interval, on_fraction) ==
    /\ CallerIdle
    /\ calls = 0
    /\ calls' = calls + 1
    /\ frame' = NewFrame(fn, duration,
                         IF fn \in OneShotRoutines THEN 0 ELSE interval,
                         IF fn = "sparkle" THEN on_fraction ELSE 0)
    /\ UNCHANGED <<now, jitter, channels, schedVars, reporterVars, call>>

NoCall == [fn |-> "none"]

InitCommon ==
    /\ now = 0 /\ jitter = 0
    /\ frame = NoFrame
    /\ idx = 0 /\ seg = NoSeg
    /\ start_time = 0 /\ outcome = <<>> /\ warnings = 0 /\ exc = "none"
    /\ stop_event = FALSE /\ deadline = 0
    /\ rpc = "none" /\ next_t = 0 /\ rwake = 0 /\ reports = <<>>
    /\ calls = 0
    /\ call = NoCall

InitPat ==
    /\ InitCommon
    /\ pc = "harness"
    /\ nSegs = 0 /\ bpm = NoBpm /\ busy = FALSE
    /\ \E r \in Registries : channels = [n \in r |-> FALSE]

NextPat ==
    \/ PatternStep
    \/ Tick
    \/ \E name \in ChannelNames : CallOn(name)
    \/ \E name \in ChannelNames : CallOff(name)
    \/ CallAllOn
    \/ CallAllOff
    \/ \E fn \in Routines \ {"sparkle"}, d \in 0..MaxDuration, i \in Intervals :
          CallPattern(fn, d, i, 0)
    \/ \E d \in 0..MaxDuration, i \in Intervals, f \in Fractions :
          CallPattern("sparkle", d, i, f)
    \/ \E fn \in CyclingRoutines : CallPattern(fn, MaxDuration + 1, 1, 0)

SpecPat == InitPat /\ [][NextPat]_vars

(* The thread that called a routine keeps running, and the clock it sleeps  *)
(* on advances.                                                             *)
FairSpecPat ==
    /\ SpecPat
    /\ WF_vars(PatternStep)
    /\ WF_vars(Tick)

----------------------------------------------------------------------------
(* show_simulator.py: SimulatorGPIO, the registry of the simulator          *)
SimulatorGPIO_channels ==
    [n \in {"T1", "T2", "T3", "BigTree", "B1", "B2", "B3", "B4"} |-> FALSE]

(* Variant: the guard is missing and the assignment creates the entry. *)
sim_on_adds(ch, name) ==
    [n \in DOMAIN ch \cup {name} |-> IF n = name THEN TRUE ELSE ch[n]]

sim_on(ch, name) == IF name \in DOMAIN ch THEN [ch EXCEPT ![name] = TRUE] ELSE ch
sim_off(ch, name) == IF name \in DOMAIN ch THEN [ch EXCEPT ![name] = FALSE] ELSE ch
sim_all_on(ch) == [n \in DOMAIN ch |-> TRUE]
sim_all_off(ch) == [n \in DOMAIN ch |-> FALSE]

(* A caller of the registry operations alone, on a GPIOController           *)
(* (pc = "harness") or on a SimulatorGPIO (pc = "simulator").  The frame    *)
(* records the call made last: the operation, its argument, the channels    *)
(* before it, and in idx whether the call before it was the same operation. *)
CallNames == ChannelNames \cup {"Star"}

Called(op, name) ==
    [NoFrame EXCEPT !.fn = op, !.pc = "returned", !.names = <<name>>,
                    !.pre = channels,
                    !.idx = IF frame.fn = op THEN 2 ELSE 1]

regFrame == <<now, jitter, schedVars, reporterVars, calls, call>>

(* test_blink has been called and has not returned: a caller makes its      *)
(* next call when the call before has come back.                            *)
Blinking == frame.fn = "gpio.test_blink" /\ frame.pc \in {"called", "sleep"}

(* gpio_controller.py, lines 13-29: list(self.channels.keys()) is the order *)
(* of insertion, the trees of the map file and then its bulbs; the map      *)
(* files the model draws from list the trees as T1, T2, T3, BigTree and     *)
(* the bulbs as B1 to B4 and Star.                                          *)
KeysInOrder(ch) ==
    SelectSeq(TREE_NAMES \o BULB_NAMES \o <<"Star">>, LAMBDA n : n \in DOMAIN ch)

(* lines 51-55: the call of test_blink(duration, interval); end is taken    *)
(* by the first step of the body.  The caller makes one such call, from     *)
(* any state of the registry.                                               *)
GPIOController_test_blink(duration, interval) ==
    /\ pc = "harness" /\ ~Blinking
    /\ calls = 0
    /\ calls' = calls + 1
    /\ frame' = [NoFrame EXCEPT !.fn = "gpio.test_blink", !.pc = "called",
                                !.duration = duration, !.interval = interval,
                                !.names = KeysInOrder(channels),
                                !.pre = channels, !.t0 = now]
    /\ UNCHANGED <<now, jitter, channels, schedVars, reporterVars, call>>

(* lines 57-66: one turn of the loop up to its time.sleep, or the loop's    *)
(* exit.  i % len(names) raises ZeroDivisionError on an empty registry;     *)
(* i += 1 follows the sleep, so a sleep that raises leaves i as it was.     *)
test_blink ==
    /\ frame.fn = "gpio.test_blink" /\ Ready
    /\ IF now < EndOf
       THEN IF frame.names = <<>>
            THEN /\ channels' = gpio_all_off(channels)
                 /\ frame' = [frame EXCEPT !.end = EndOf, !.pc = "raised",
                                           !.exc = "ZeroDivisionError"]
            ELSE /\ channels' = gpio_on(gpio_all_off(channels),
                                        frame.names[(frame.idx % Len(frame.names)) + 1])
                 /\ frame' = Sleep([frame EXCEPT !.end = EndOf,
                                                  !.idx = IF frame.interval < 0 THEN @
                                                          ELSE @ + 1],
                                   frame.interval)
       ELSE /\ channels' = gpio_all_off(channels)
            /\ frame' = Return([frame EXCEPT !.end = EndOf])
    /\ UNCHANGED regFrame

GPIOController_on(name) ==
    /\ pc = "harness" /\ ~Blinking
    /\ channels' = gpio_on(channels, name)
    /\ frame' = Called("gpio.on", name)
    /\ UNCHANGED regFrame

GPIOController_off(name) ==
    /\ pc = "harness" /\ ~Blinking
    /\ channels' = gpio_off(channels, name)
    /\ frame' = Called("gpio.off", name)
    /\ UNCHANGED regFrame

GPIOController_all_on ==
    /\ pc = "harness" /\ ~Blinking
    /\ channels' = gpio_all_on(channels)
    /\ frame' = Called("gpio.all_on", "")
    /\ UNCHANGED regFrame

GPIOController_all_off ==
    /\ pc = "harness" /\ ~Blinking
    /\ channels' = gpio_all_off(channels)
    /\ frame' = Called("gpio.all_off", "")
    /\ UNCHANGED regFrame

SimulatorGPIO_on(name) ==
    /\ pc = "simulator"
    /\ channels' = sim_on(channels, name)
    /\ frame' = Called("gpio.on", name)
    /\ UNCHANGED regFrame

SimulatorGPIO_off(name) ==
    /\ pc = "simulator"
    /\ channels' = sim_off(channels, name)
    /\ frame' = Called("gpio.off", name)
    /\ UNCHANGED regFrame

SimulatorGPIO_all_on ==
    /\ pc = "simulator"
    /\ channels' = sim_all_on(channels)
    /\ frame' = Called("gpio.all_on", "")
    /\ UNCHANGED regFrame

SimulatorGPIO_all_off ==
    /\ pc = "simulator"
    /\ channels' = sim_all_off(channels)
    /\ frame' = Called("gpio.all_off", "")
    /\ UNCHANGED regFrame

(* The calls of test_blink the model draws from: interval 0.5 s is the     *)
(* default, 1 s is long enough for a second name at that interval.          *)
BlinkDurations == (0..MaxDuration) \cup {TicksPerSecond}
BlinkIntervals == Intervals \cup {TicksPerSecond \div 2}

InitReg ==
    /\ InitCommon
    /\ nSegs = 0 /\ bpm = NoBpm /\ busy = FALSE
    /\ \/ pc = "harness" /\ \E r \in Registries : channels = [n \in r |-> FALSE]
       \/ pc = "simulator" /\ channels = SimulatorGPIO_channels

NextReg ==
    \/ \E name \in CallNames : GPIOController_on(name)
    \/ \E name \in CallNames : GPIOController_off(name)
    \/ GPIOController_all_on
    \/ GPIOController_all_off
    \/ \E name \in CallNames : SimulatorGPIO_on(name)
    \/ \E name \in CallNames : SimulatorGPIO_off(name)
    \/ SimulatorGPIO_all_on
    \/ SimulatorGPIO_all_off
    \/ \E duration \in BlinkDurations, interval \in BlinkIntervals :
          GPIOController_test_blink(duration, interval)
    \/ test_blink
    \/ Tick

SpecReg == InitReg /\ [][NextReg]_vars

----------------------------------------------------------------------------
(* Python's float: an IEEE 754 double, kept as a sign, a mantissa of        *)
(* MantissaBits bits (most significant first, the first one 1) and an       *)
(* exponent: the value is mantissa * 2^e.  Zero has the empty mantissa.     *)
(* Every operation computes the exact result on bit sequences and rounds it *)
(* to nearest, ties to even, as the hardware does.  The exponent range of   *)
(* a double is not reached by the values of a show file.                    *)
MantissaBits == 53

FloatZero == [neg |-> FALSE, m |-> <<>>, e |-> 0]

Abs(n) == IF n < 0 THEN -n ELSE n
Zeros(k) == [i \in 1..k |-> 0]
Ones(k) == [i \in 1..k |-> 1]

(* The bits of a natural number below 2^30, and back *)
BitLen(n) == CHOOSE L \in 0..30 : n < 2^L /\ (L = 0 \/ 2^(L - 1) <= n)
BitsOf(n) == [i \in 1..BitLen(n) |-> (n \div 2^(BitLen(n) - i)) % 2]

RECURSIVE BitsVal(_)
BitsVal(b) == IF b = <<>> THEN 0 ELSE 2 * BitsVal(SubSeq(b, 1, Len(b) - 1)) + b[Len(b)]

(* b without its leading zeros *)
Strip(b) ==
    IF \A i \in 1..Len(b) : b[i] = 0 THEN <<>>
    ELSE LET first == CHOOSE i \in 1..Len(b) : b[i] = 1 /\ \A j \in 1..(i - 1) : b[j] = 0
         IN SubSeq(b, first, Len(b))

(* b + 1 and b - 1 *)
Inc(b) ==
    IF \A i \in 1..Len(b) : b[i] = 1 THEN <<1>> \o Zeros(Len(b))
    ELSE LET last == CHOOSE i \in 1..Len(b) : b[i] = 0 /\ \A j \in (i + 1)..Len(b) : b[j] = 1
         IN SubSeq(b, 1, last - 1) \o <<1>> \o Zeros(Len(b) - last)
Dec(b) ==
    LET last == CHOOSE i \in 1..Len(b) : b[i] = 1 /\ \A j \in (i + 1)..Len(b) : b[j] = 0
    IN SubSeq(b, 1, last - 1) \o <<0>> \o Ones(Len(b) - last)

(* a + b: bit i of the sum is a[i] + b[i] plus the carry into i, which is   *)
(* generated at a lower position and propagated by every one in between.    *)
AddBits(a, b) ==
    LET n == (IF Len(a) > Len(b) THEN Len(a) ELSE Len(b)) + 1
        x == Zeros(n - Len(a)) \o a
        y == Zeros(n - Len(b)) \o b
        carry(i) == \E j \in (i + 1)..n :
                        /\ x[j] = 1 /\ y[j] = 1
                        /\ \A k \in (i + 1)..(j - 1) : x[k] = 1 \/ y[k] = 1
    IN Strip([i \in 1..n |-> (x[i] + y[i] + (IF carry(i) THEN 1 ELSE 0)) % 2])

(* b * k for a natural number k: the sum of b shifted by the ones of k *)
RECURSIVE MulBits(_, _)
MulBits(b, kbits) ==
    IF kbits = <<>> THEN <<>>
    ELSE LET rest == MulBits(b, SubSeq(kbits, 1, Len(kbits) - 1)) \o <<0>>
         IN IF kbits[Len(kbits)] = 1 THEN AddBits(rest, b) ELSE Strip(rest)

(* The exact value b * 2^e, plus something below its last bit when sticky,  *)
(* rounded to a mantissa of p bits.                                         *)
RoundTo(p, neg, b, sticky, e) ==
    IF b = <<>> THEN FloatZero
    ELSE IF Len(b) <= p
    THEN [neg |-> neg, m |-> b \o Zeros(p - Len(b)), e |-> e - (p - Len(b))]
    ELSE LET keep == SubSeq(b, 1, p)
             rest == SubSeq(b, p + 1, Len(b))
             below == sticky \/ \E i \in 2..Len(rest) : rest[i] = 1
             up == rest[1] = 1 /\ (below \/ keep[p] = 1)
             m == IF up THEN Inc(keep) ELSE keep
         IN IF Len(m) > p
            THEN [neg |-> neg, m |-> SubSeq(m, 1, p), e |-> e + Len(rest) + 1]
            ELSE [neg |-> neg, m |-> m, e |-> e + Len(rest)]
(* ... rounded to a double *)
RoundBits(neg, b, sticky, e) == RoundTo(MantissaBits, neg, b, sticky, e)

(* float(n) for an int n *)
FromInt(n) == RoundBits(n < 0, BitsOf(Abs(n)), FALSE, 0)

(* The integer part of a float's value, for a value within the int range *)
IntOf(x) ==
    IF x.m = <<>> THEN 0
    ELSE LET mag == IF x.e >= 0 THEN BitsVal(x.m \o Zeros(x.e))
                    ELSE IF -x.e >= Len(x.m) THEN 0
                    ELSE BitsVal(SubSeq(x.m, 1, Len(x.m) + x.e))
         IN IF x.neg THEN -mag ELSE mag

(* 2^i modulo d *)
RECURSIVE PowMod2(_, _)
PowMod2(i, d) ==
    IF i = 0 THEN 1 % d
    ELSE LET h == PowMod2(i \div 2, d)
         IN (((h * h) % d) * (IF i % 2 = 1 THEN 2 ELSE 1)) % d

(* The number of quotient bits after the point that a division by d       *)
(* computes before it rounds: a quotient that is not 0 is 1 / d or more, so *)
(* that its first one is among the first BitLen(d) of them and the          *)
(* mantissa, the bit that decides the rounding and one more follow.         *)
DivisionBits(d) == BitLen(d) + MantissaBits + 2

(* a / b for ints a and b, b # 0: Python's true division.  Long division:   *)
(* the quotient's integer part, then DivisionBits(b) bits after the point,  *)
(* bit i being decided by the remainder left after i - 1 bits; what is left *)
(* after the last one makes the quotient inexact.                           *)
FloatDiv(a, b) ==
    LET n == Abs(a)
        d == Abs(b)
        bits == DivisionBits(d)
        rem(i) == ((n % d) * PowMod2(i, d)) % d
        q == BitsOf(n \div d) \o
             [i \in 1..bits |-> IF 2 * rem(i - 1) >= d THEN 1 ELSE 0]
    IN RoundBits((a < 0) # (b < 0), Strip(q), rem(bits) # 0, -bits)

(* x * float(k) for an int k *)
FloatMul(x, k) ==
    IF k = 0 \/ x.m = <<>> THEN FloatZero
    ELSE RoundBits(x.neg # (k < 0), MulBits(x.m, BitsOf(Abs(k))), FALSE, x.e)

(* x + y for floats of the same sign *)
FloatAdd(x, y) ==
    IF x.m = <<>> THEN y
    ELSE IF y.m = <<>> THEN x
    ELSE LET e == IF x.e < y.e THEN x.e ELSE y.e
         IN RoundBits(x.neg, AddBits(x.m \o Zeros(x.e - e), y.m \o Zeros(y.e - e)),
                      FALSE, e)

(* a - b for a >= b: bit i is a[i] - b[i] less the borrow from i, which is  *)
(* asked for at a lower position and passed on by every position in         *)
(* between where the two bits are equal.                                    *)
SubBits(a, b) ==
    LET n == Len(a)
        y == Zeros(n - Len(b)) \o b
        borrow(i) == \E j \in (i + 1)..n :
                        /\ a[j] = 0 /\ y[j] = 1
                        /\ \A k \in (i + 1)..(j - 1) : a[k] = y[k]
    IN Strip([i \in 1..n |-> (2 + a[i] - y[i] - (IF borrow(i) THEN 1 ELSE 0)) % 2])

(* a * b for two long bit sequences.  Column k of the schoolbook product    *)
(* holds one unit of weight 2^k for every pair of ones whose weights add   *)
(* up to k; the columns are summed LimbBits at a time and the carries run   *)
(* from limb to limb.                                                       *)
LimbBits == 8
RECURSIVE LimbSum(_, _, _)
LimbSum(cols, lo, t) ==
    IF t = 0 THEN 0 ELSE cols[lo + 1] + 2 * LimbSum(cols, lo + 1, t - 1)
MulLong(a, b) ==
    LET la == Len(a)
        lb == Len(b)
        limbs == (la + lb + LimbBits - 1) \div LimbBits
        bbit(j) == IF j >= 0 /\ j < lb THEN b[lb - j] ELSE 0
        cols == [k \in 1..(limbs * LimbBits) |->
                    Cardinality({i \in 0..(la - 1) :
                                    a[la - i] = 1 /\ bbit(k - 1 - i) = 1})] \o <<>>
        limb == [m \in 1..limbs |-> LimbSum(cols, (m - 1) * LimbBits, LimbBits)] \o <<>>
        carry[m \in 1..limbs] ==
            IF m = 1 THEN 0 ELSE (limb[m - 1] + carry[m - 1]) \div 2^LimbBits
        digit == [m \in 1..limbs |-> (limb[m] + carry[m]) % 2^LimbBits] \o <<>>
    IN Strip([p \in 1..(limbs * LimbBits) |->
                LET w == limbs * LimbBits - p
                IN (digit[(w \div LimbBits) + 1] \div 2^(w % LimbBits)) % 2])

(* x < y, x - y and x * y for floats x >= 0 and y >= 0 (x >= y for x - y) *)
FloatLess(x, y) ==
    IF y.m = <<>> THEN FALSE
    ELSE IF x.m = <<>> THEN TRUE
    ELSE IF x.e # y.e THEN x.e < y.e
    ELSE \E i \in 1..MantissaBits :
            /\ x.m[i] < y.m[i]
            /\ \A j \in 1..(i - 1) : x.m[j] = y.m[j]
FloatSub(x, y) ==
    IF y.m = <<>> THEN x
    ELSE LET e == IF x.e < y.e THEN x.e ELSE y.e
         IN RoundBits(FALSE, SubBits(x.m \o Zeros(x.e - e), y.m \o Zeros(y.e - e)),
                      FALSE, e)
FloatTimes(x, y) ==
    IF x.m = <<>> \/ y.m = <<>> THEN FloatZero
    ELSE RoundBits(x.neg # y.neg, MulLong(x.m, y.m), FALSE, x.e + y.e)

(* x / (num / den) for a float x >= 0 and ints num > 0, den a power of two: *)
(* long division by num of the mantissa with GuardBits more bits, LimbBits  *)
(* bits at a time.                                                          *)
GuardBits == 8
FloatOver(x, num, den) ==
    IF x.m = <<>> THEN FloatZero
    ELSE LET pad == (LimbBits - ((Len(x.m) + GuardBits) % LimbBits)) % LimbBits
             b == Zeros(pad) \o x.m \o Zeros(GuardBits)
             limbs == Len(b) \div LimbBits
             limb == [k \in 1..limbs |->
                         BitsVal(SubSeq(b, (k - 1) * LimbBits + 1, k * LimbBits))] \o <<>>
             rem[k \in 0..limbs] ==
                 IF k = 0 THEN 0 ELSE (rem[k - 1] * 2^LimbBits + limb[k]) % num
             digit == [k \in 1..limbs |->
                          (rem[k - 1] * 2^LimbBits + limb[k]) \div num] \o <<>>
             q == [i \in 1..Len(b) |->
                      (digit[((i - 1) \div LimbBits) + 1]
                          \div 2^(LimbBits - 1 - ((i - 1) % LimbBits))) % 2]
         IN RoundBits(x.neg, Strip(q), rem[limbs] # 0, x.e - GuardBits + BitLen(den) - 1)

(* numpy.float32: a float with a mantissa of SingleBits bits.  A float32    *)
(* is kept as the double that has its value; float32(x) is the double x     *)
(* rounded to a float32, and the operations on two float32 round their      *)
(* exact result once, to a float32 (operands >= 0, x >= y for x - y).       *)
SingleBits == 24
Single(neg, b, sticky, e) ==
    LET r == RoundTo(SingleBits, neg, b, sticky, e)
    IN IF r.m = <<>> THEN FloatZero
       ELSE [r EXCEPT !.m = @ \o Zeros(MantissaBits - SingleBits),
                      !.e = @ - (MantissaBits - SingleBits)]
float32(x) == Single(x.neg, x.m, FALSE, x.e)
float32_mul(x, y) ==
    IF x.m = <<>> \/ y.m = <<>> THEN FloatZero
    ELSE Single(x.neg # y.neg, MulLong(x.m, y.m), FALSE, x.e + y.e)
float32_add(x, y) ==
    IF x.m = <<>> THEN y
    ELSE IF y.m = <<>> THEN x
    ELSE LET e == IF x.e < y.e THEN x.e ELSE y.e
         IN Single(x.neg, AddBits(x.m \o Zeros(x.e - e), y.m \o Zeros(y.e - e)),
                   FALSE, e)
float32_sub(x, y) ==
    IF y.m = <<>> THEN x
    ELSE LET e == IF x.e < y.e THEN x.e ELSE y.e
         IN Single(FALSE, SubBits(x.m \o Zeros(x.e - e), y.m \o Zeros(y.e - e)),
                   FALSE, e)

(* The floats next to x, away from zero and towards zero *)
FloatAway(x) ==
    LET m == Inc(x.m)
    IN IF Len(m) > MantissaBits
       THEN [x EXCEPT !.m = SubSeq(m, 1, MantissaBits), !.e = x.e + 1]
       ELSE [x EXCEPT !.m = m]
FloatToZero(x) ==
    LET m == Dec(x.m)
    IN IF m[1] = 0
       THEN [x EXCEPT !.m = Append(Tail(m), 1), !.e = x.e - 1]
       ELSE [x EXCEPT !.m = m]

(* The floats at most n floats away from x *)
RECURSIVE FloatsNear(_, _)
FloatsNear(x, n) ==
    IF n = 0 \/ x.m = <<>> THEN {x}
    ELSE LET s == FloatsNear(x, n - 1)
         IN s \cup {FloatAway(y) : y \in s} \cup {FloatToZero(y) : y \in s}

----------------------------------------------------------------------------
(* show_runner.py                                                           *)

(* What a call gives back: a value, or the exception it raised *)
Returned(v) == [exc |-> "none", val |-> v]
Raised(e) == [exc |-> e, val |-> FloatZero]

(* Variant: only a negative bpm is refused (< in place of <=), and the      *)
(* division by a bpm of 0 raises.                                           *)
beats_to_seconds_accepts_zero(beats, b) ==
    IF b < 0 THEN Raised("ValueError")
    ELSE IF b = 0 THEN Raised("ZeroDivisionError")
    ELSE Returned(FloatMul(FloatDiv(beats, b), 60))

(* lines 53-55: ValueError for bpm <= 0, else (beats / bpm) * 60.0.  The     *)
(* quotients and products of the inputs the model draws from are computed   *)
(* once and looked up.                                                      *)
MaxBeats == 3
MaxFactor == 3
ProbeBeats == (-2..(MaxBeats * MaxFactor)) \cup ((MaxBeats + 1)..(2 * MaxBeats))
ProbeBpms == {-60, 0, 7, 60, 120, 186, 5000}
SecondsOf == [beats \in ProbeBeats, b \in {t \in ProbeBpms : t > 0} |->
                 FloatMul(FloatDiv(beats, b), 60)]

beats_to_seconds(beats, b) ==
    IF b <= 0 THEN Raised("ValueError")
    ELSE IF <<beats, b>> \in DOMAIN SecondsOf THEN Returned(SecondsOf[beats, b])
    ELSE Returned(FloatMul(FloatDiv(beats, b), 60))

(* key.endswith('_interval') or key == 'interval', over the keys the model  *)
(* draws from                                                               *)
OptionKeys ==
    {"interval", "step_interval", "_interval", "intervals", "interval_ms",
     "on_fraction", "color"}
EndsWith_interval(key) == key \in {"step_interval", "_interval"}
IsIntervalKey(key) == EndsWith_interval(key) \/ key = "interval"

(* Variant: only the converted options are kept. *)
convert_beat_intervals_drops_others(options, b) ==
    IF \E key \in DOMAIN options : IsIntervalKey(key) /\ beats_to_seconds(options[key], b).exc # "none"
    THEN Raised("ValueError")
    ELSE Returned([key \in {k \in DOMAIN options : IsIntervalKey(k)} |->
                      beats_to_seconds(options[key], b).val])

(* lines 63-70: the two dicts when the loop has run over every item.  Each  *)
(* step assigns converted[key]; nothing assigns into options.               *)
ConvertLoop(options, b) ==
    [options   |-> options,
     converted |-> [key \in DOMAIN options |->
                      IF IsIntervalKey(key) THEN beats_to_seconds(options[key], b).val
                      ELSE options[key]]]

(* lines 63-71: a new dict; the first interval key met raises when          *)
(* beats_to_seconds does                                                    *)
convert_beat_intervals(options, b) ==
    IF \E key \in DOMAIN options : IsIntervalKey(key) /\ beats_to_seconds(options[key], b).exc # "none"
    THEN Raised("ValueError")
    ELSE Returned(ConvertLoop(options, b).converted)

(* The arguments of a call on the clock's unit: a time that is a float      *)
(* number of seconds becomes the number of whole ticks it holds.  The       *)
(* products of the seconds the model's shows can give are computed once     *)
(* and looked up.                                                           *)
TicksOfSeconds(x) == IntOf(FloatMul(x, TicksPerSecond))
TicksOf == [x \in {SecondsOf[k] : k \in DOMAIN SecondsOf} |-> TicksOfSeconds(x)]
OnClock(args) ==
    [key \in DOMAIN args |->
        IF IsIntervalKey(key)
        THEN IF args[key] \in DOMAIN TicksOf THEN TicksOf[args[key]]
             ELSE TicksOfSeconds(args[key])
        ELSE args[key]]

(* A show without bpm gives its intervals in seconds: the model writes      *)
(* them, like start and end, in ticks, and the code passes them as they     *)
(* are.  A show with a bpm gives numbers of beats: InTicks is such a number *)
(* taken for a number of seconds, as by a program that does not convert.    *)
InTicks(args) ==
    [key \in DOMAIN args |->
        IF IsIntervalKey(key) THEN args[key] * TicksPerSecond ELSE args[key]]
(* section.get("options", {}) passed as it is, for a show whose bpm is b *)
AsItIs(args, b) == IF b = NoBpm THEN args ELSE InTicks(args)

(* A caller of the normalizer alone: it calls beats_to_seconds, adds and     *)
(* scales what it returned with Python's float operations, and calls        *)
(* convert_beat_intervals on option dicts.  call records the call made      *)
(* with what it gave back.  The functions keep nothing between two calls,   *)
(* so one call from the initial state stands for a call at any time.        *)
OptionValues == (-2..MaxBeats) \cup {5}
OptionDicts ==
    UNION {[keys -> OptionValues] :
              keys \in {k \in SUBSET OptionKeys : Cardinality(k) <= 2}}

normFrame == <<now, jitter, channels, frame, schedVars, reporterVars, calls>>

CallBeatsToSeconds(beats, b) ==
    /\ pc = "harness" /\ call = NoCall
    /\ call' = [fn |-> "beats_to_seconds", beats |-> beats, bpm |-> b,
                ret |-> beats_to_seconds(beats, b)]
    /\ UNCHANGED normFrame

(* beats_to_seconds(a, b) + beats_to_seconds(c, b) against                  *)
(* beats_to_seconds(a + c, b)                                               *)
ProbeAdditive(a, c, b) ==
    /\ pc = "harness" /\ call = NoCall
    /\ call' = [fn |-> "additive", a |-> a, c |-> c, bpm |-> b,
                ret_sum |-> beats_to_seconds(a + c, b),
                sum |-> FloatAdd(beats_to_seconds(a, b).val, beats_to_seconds(c, b).val)]
    /\ UNCHANGED normFrame

(* k * beats_to_seconds(a, b) against beats_to_seconds(k * a, b) *)
ProbeHomogeneous(k, a, b) ==
    /\ pc = "harness" /\ call = NoCall
    /\ call' = [fn |-> "homogeneous", k |-> k, a |-> a, bpm |-> b,
                ret_scaled |-> beats_to_seconds(k * a, b),
                scaled |-> FloatMul(beats_to_seconds(a, b).val, k)]
    /\ UNCHANGED normFrame

CallConvert(options, b) ==
    /\ pc = "harness" /\ call = NoCall
    /\ call' = [fn |-> "convert_beat_intervals", options |-> options, bpm |-> b,
                ret |-> convert_beat_intervals(options, b),
                after |-> ConvertLoop(options, b).options]
    /\ UNCHANGED normFrame

InitNorm ==
    /\ InitCommon
    /\ pc = "harness"
    /\ nSegs = 0 /\ bpm = NoBpm /\ busy = FALSE
    /\ channels = [n \in {} |-> FALSE]

NextNorm ==
    \/ \E beats \in -2..MaxBeats, b \in ProbeBpms : CallBeatsToSeconds(beats, b)
    \/ \E a \in 0..MaxBeats, c \in 0..MaxBeats, b \in ProbeBpms : ProbeAdditive(a, c, b)
    \/ \E k \in 0..MaxFactor, a \in 0..MaxBeats, b \in ProbeBpms : ProbeHomogeneous(k, a, b)
    \/ \E options \in OptionDicts, b \in ProbeBpms : CallConvert(options, b)

SpecNorm == InitNorm /\ [][NextNorm]_vars

(* The attributes of module patterns: hasattr(patterns, name) *)
OtherAttributes == {"_safe_on", "TREE_NAMES", "time"}
(* Variant: the lookup finds every name. *)
hasattr_anything(name) == TRUE
hasattr(name) == name \in Routines \cup OtherAttributes

(* pattern_func(gpio, duration=duration, **args) binds its arguments: the   *)
(* attribute has to be a function that accepts every keyword passed.        *)
CallBinds(name, args) ==
    /\ name \in Routines
    /\ ({"duration"} \cup DOMAIN args) \subseteq Params(name)

(* Default values of the interval parameters, in milliseconds *)
DefaultIntervalMs(fn) ==
    CASE fn = "blink_all" -> 500
      [] fn = "alternate_trees_and_bulbs" -> 400
      [] fn \in {"wave_trees", "wave_all", "trees_cascade"} -> 200
      [] fn = "chase_bulbs" -> 150
      [] fn = "sparkle" -> 80
      [] fn = "finale_flash" -> 120
      [] OTHER -> 0
DefaultOnFraction == 50
(* Milliseconds on the clock's unit: every default is a whole number of     *)
(* ticks.                                                                   *)
ToTicks(ms) == (ms * TicksPerSecond) \div 1000

ArgInterval(fn, args) ==
    IF IntervalParam(fn) \in DOMAIN args THEN args[IntervalParam(fn)]
    ELSE ToTicks(DefaultIntervalMs(fn))
ArgOnFraction(args) ==
    IF "on_fraction" \in DOMAIN args THEN args["on_fraction"] ELSE DefaultOnFraction

(* The show files the model draws from *)
NoOptions == [key \in {} |-> 0]
OptionSets == {NoOptions, "interval" :> 2, "step_interval" :> 2, "interval" :> -2}
PatternNames == Routines \cup OtherAttributes \cup {"nonexistent"}
Segments ==
    [pattern : PatternNames, start : 0..MaxStart, end : 0..(MaxStart + 1),
     options : OptionSets]
Bpms == {NoBpm, <<-60>>, <<0>>, <<120>>}
ShowRegistries == {{"T1", "B2"}}

(* What a scheduler does with one section of the show: it skips it, or     *)
(* calls a routine with a duration and keyword arguments.                   *)
Skipped(why) == [kind |-> why, fn |-> "none", duration |-> 0, args |-> NoOptions]
Invoked(fn, duration, args) ==
    [kind |-> "call", fn |-> fn, duration |-> duration, args |-> args]

(* show_runner.py, lines 105-131, on one section *)
run_show_section(s, b) ==
    IF s.end - s.start <= 0 THEN Skipped("skipped_duration")
    ELSE IF ~hasattr(s.pattern) THEN Skipped("skipped_unknown")
    ELSE Invoked(s.pattern, s.end - s.start,
                 IF b # NoBpm THEN OnClock(convert_beat_intervals(s.options, b[1]).val)
                 ELSE s.options)

(* show_simulator.py, lines 304-342, on one section of a show whose bpm is  *)
(* b: show["bpm"] is never read, the options are passed as they are         *)
run_simulation_section(s, b) ==
    IF s.end - s.start <= 0 THEN Skipped("skipped_duration")
    ELSE IF ~hasattr(s.pattern) THEN Skipped("skipped_unknown")
    ELSE Invoked(s.pattern, s.end - s.start, AsItIs(s.options, b))

(* One show file given to both programs.  Both handle the sections in       *)
(* order, one at a time, so the sequences of invocations are equal when     *)
(* every section is handled alike.  run_show reaches its loop only with no  *)
(* bpm or a positive one.                                                   *)
SectionOfBoth(s, b) ==
    /\ pc = "harness" /\ call = NoCall
    /\ call' = [fn |-> "section", section |-> s, bpm |-> b,
                runner |-> run_show_section(s, b),
                simulator |-> run_simulation_section(s, b)]
    /\ UNCHANGED normFrame

NextBoth ==
    \E s \in Segments, b \in {x \in Bpms : x = NoBpm \/ x[1] > 0} : SectionOfBoth(s, b)

SpecBoth == InitNorm /\ [][NextBoth]_vars

(* Variant: the tempo line is printed after play_song has started playback. *)
RunShowStart_play_first ==
    /\ pc = "start"
    /\ \E found \in BOOLEAN :
          IF ~found
          THEN /\ exc' = "FileNotFoundError"
               /\ pc' = "exited"
               /\ UNCHANGED <<start_time, busy, rpc>>
          ELSE IF bpm # NoBpm /\ bpm[1] <= 0
          THEN /\ start_time' = now
               /\ busy' = TRUE
               /\ exc' = "ValueError"
               /\ pc' = "exited"
               /\ rpc' = rpc
          ELSE /\ start_time' = now
               /\ busy' = TRUE
               /\ rpc' = "check"
               /\ pc' = "for"
               /\ exc' = exc
    /\ UNCHANGED <<now, jitter, channels, frame, nSegs, idx, seg, bpm, outcome,
                   warnings, stop_event, deadline, next_t, rwake, reports, calls, call>>

(* Variant: the timestamp thread is started before play_song is called. *)
RunShowStart_thread_first ==
    /\ pc = "start"
    /\ IF bpm # NoBpm /\ bpm[1] <= 0
       THEN /\ exc' = "ValueError"
            /\ pc' = "exited"
            /\ UNCHANGED <<start_time, busy, rpc>>
       ELSE \E found \in BOOLEAN :
              IF found
              THEN /\ start_time' = now
                   /\ busy' = TRUE
                   /\ rpc' = "check"
                   /\ pc' = "for"
                   /\ exc' = exc
              ELSE /\ exc' = "FileNotFoundError"
                   /\ rpc' = "check"
                   /\ pc' = "exited"
                   /\ UNCHANGED <<start_time, busy>>
    /\ UNCHANGED <<now, jitter, channels, frame, nSegs, idx, seg, bpm, outcome,
                   warnings, stop_event, deadline, next_t, rwake, reports, calls, call>>

(* run_show, lines 79-101: the tempo line, play_song, the timestamp thread *)
RunShowStart ==
    /\ pc = "start"
    /\ IF bpm # NoBpm /\ bpm[1] <= 0
       THEN /\ exc' = "ValueError"
            /\ pc' = "exited"
            /\ UNCHANGED <<start_time, busy, rpc>>
       ELSE \E found \in BOOLEAN :
              IF found
              THEN /\ start_time' = now
                   /\ busy' = TRUE
                   /\ rpc' = "check"
                   /\ pc' = "for"
                   /\ exc' = exc
              ELSE /\ exc' = "FileNotFoundError"
                   /\ pc' = "exited"
                   /\ UNCHANGED <<start_time, busy, rpc>>
    /\ UNCHANGED <<now, jitter, channels, frame, nSegs, idx, seg, bpm, outcome,
                   warnings, stop_event, deadline, next_t, rwake, reports, calls, call>>

(* The playback subsystem reaches the end of the audio file, which lasts    *)
(* MaxAudio ticks at most.  Only the drain loop reads get_busy(): an end    *)
(* of playback before that loop is seen by run_show as an end at the        *)
(* loop's first poll.                                                       *)
PlaybackEnds ==
    /\ busy
    /\ pc \in {"drain", "drain_sleep", "sim_drain"}
    /\ busy' = FALSE
    /\ UNCHANGED <<now, jitter, channels, frame, pc, nSegs, idx, seg, bpm,
                   start_time, outcome, warnings, exc, stop_event, deadline,
                   reporterVars, calls, call>>

(* Variant: only a negative duration is skipped (< in place of <=). *)
NextSection_strict ==
    /\ pc = "for"
    /\ IF idx = nSegs
       THEN /\ pc' = "drain"
            /\ seg' = NoSeg
            /\ UNCHANGED <<idx, outcome>>
       ELSE \E s \in Segments :
              /\ idx' = idx + 1
              /\ IF s.end - s.start < 0
                 THEN /\ outcome' = Append(outcome, "skipped_duration")
                      /\ seg' = [NoSeg EXCEPT !.start = s.start, !.end = s.end]
                      /\ pc' = "for"
                 ELSE /\ outcome' = outcome
                      /\ seg' = s
                      /\ pc' = "wait"
    /\ UNCHANGED <<now, jitter, channels, frame, nSegs, bpm, busy, start_time,
                   warnings, exc, stop_event, deadline, reporterVars, calls, call>>

(* Variant: the loop ends one section early. *)
NextSection_early ==
    /\ pc = "for"
    /\ IF idx + 1 >= nSegs
       THEN /\ pc' = "drain"
            /\ seg' = NoSeg
            /\ UNCHANGED <<idx, outcome>>
       ELSE \E s \in Segments :
              /\ idx' = idx + 1
              /\ IF s.end - s.start <= 0
                 THEN /\ outcome' = Append(outcome, "skipped_duration")
                      /\ seg' = [NoSeg EXCEPT !.start = s.start, !.end = s.end]
                      /\ pc' = "for"
                 ELSE /\ outcome' = outcome
                      /\ seg' = s
                      /\ pc' = "wait"
    /\ UNCHANGED <<now, jitter, channels, frame, nSegs, bpm, busy, start_time,
                   warnings, exc, stop_event, deadline, reporterVars, calls, call>>

(* lines 104-110: the for loop fetches the next section, or ends.  Of a     *)
(* section skipped at line 110 only start and end have been used.           *)
NextSection ==
    /\ pc = "for"
    /\ IF idx = nSegs
       THEN /\ pc' = "drain"
            /\ seg' = NoSeg
            /\ UNCHANGED <<idx, outcome>>
       ELSE \E s \in Segments :
              /\ idx' = idx + 1
              /\ IF s.end - s.start <= 0
                 THEN /\ outcome' = Append(outcome, "skipped_duration")
                      /\ seg' = [NoSeg EXCEPT !.start = s.start, !.end = s.end]
                      /\ pc' = "for"
                 ELSE /\ outcome' = outcome
                      /\ seg' = s
                      /\ pc' = "wait"
    /\ UNCHANGED <<now, jitter, channels, frame, nSegs, bpm, busy, start_time,
                   warnings, exc, stop_event, deadline, reporterVars, calls, call>>

(* Variant: the wait loop is missing. *)
AwaitSegment_no_wait ==
    /\ pc = "wait"
    /\ pc' = "dispatch"
    /\ UNCHANGED <<now, jitter, channels, frame, nSegs, idx, seg, bpm, busy,
                   start_time, outcome, warnings, exc, stop_event, deadline,
                   reporterVars, calls, call>>

(* lines 113-114: while time.time() - start_time < start: time.sleep(0.01) *)
AwaitSegment ==
    /\ pc = "wait"
    /\ ~(now - start_time < seg.start)
    /\ pc' = "dispatch"
    /\ UNCHANGED <<now, jitter, channels, frame, nSegs, idx, seg, bpm, busy,
                   start_time, outcome, warnings, exc, stop_event, deadline,
                   reporterVars, calls, call>>

(* Variant: a late dispatch shortens the call so that it ends at the        *)
(* section's end.                                                           *)
RunningPattern_catches_up ==
    /\ pc = "dispatch"
    /\ LET duration == seg.end - (now - start_time)
           args == IF bpm # NoBpm
                   THEN OnClock(convert_beat_intervals(seg.options, bpm[1]).val)
                   ELSE seg.options
       IN IF ~hasattr(seg.pattern)
          THEN /\ warnings' = warnings + 1
               /\ outcome' = Append(outcome, "skipped_unknown")
               /\ pc' = "for"
               /\ seg' = NoSeg
               /\ UNCHANGED <<frame, exc>>
          ELSE IF ~CallBinds(seg.pattern, args)
          THEN /\ exc' = "TypeError"
               /\ outcome' = Append(outcome, "raised")
               /\ pc' = "finally"
               /\ seg' = NoSeg
               /\ UNCHANGED <<frame, warnings>>
          ELSE /\ frame' = NewFrame(seg.pattern, duration,
                                    ArgInterval(seg.pattern, args), ArgOnFraction(args))
               /\ outcome' = Append(outcome, "dispatched")
               /\ pc' = "running"
               /\ UNCHANGED <<warnings, exc, seg>>
    /\ UNCHANGED <<now, jitter, channels, nSegs, idx, bpm, busy, start_time,
                   stop_event, deadline, reporterVars, calls, call>>

(* lines 116-131: normalize the options, look the pattern up, call it *)
RunningPattern ==
    /\ pc = "dispatch"
    /\ LET duration == seg.end - seg.start
           args == IF bpm # NoBpm
                   THEN OnClock(convert_beat_intervals(seg.options, bpm[1]).val)
                   ELSE seg.options
       IN IF ~hasattr(seg.pattern)
          THEN /\ warnings' = warnings + 1
               /\ outcome' = Append(outcome, "skipped_unknown")
               /\ pc' = "for"
               /\ seg' = NoSeg
               /\ UNCHANGED <<frame, exc>>
          ELSE IF ~CallBinds(seg.pattern, args)
          THEN /\ exc' = "TypeError"
               /\ outcome' = Append(outcome, "raised")
               /\ pc' = "finally"
               /\ seg' = NoSeg
               /\ UNCHANGED <<frame, warnings>>
          ELSE /\ frame' = NewFrame(seg.pattern, duration,
                                    ArgInterval(seg.pattern, args), ArgOnFraction(args))
               /\ outcome' = Append(outcome, "dispatched")
               /\ pc' = "running"
               /\ UNCHANGED <<warnings, exc, seg>>
    /\ UNCHANGED <<now, jitter, channels, nSegs, idx, bpm, busy, start_time,
                   stop_event, deadline, reporterVars, calls, call>>

(* Variant: the call does not block: the loop goes on while the routine runs. *)
PatternReturns_without_waiting ==
    /\ pc = "running"
    /\ pc' = "for"
    /\ UNCHANGED <<now, jitter, channels, frame, nSegs, idx, seg, bpm, busy,
                   start_time, outcome, warnings, exc, stop_event, deadline,
                   reporterVars, calls, call>>

(* line 131: the call returns, or its exception leaves the try block *)
PatternReturns ==
    /\ pc = "running"
    /\ frame.pc \in {"returned", "raised"}
    /\ IF frame.pc = "returned"
       THEN pc' = "for" /\ exc' = exc
       ELSE pc' = "finally" /\ exc' = frame.exc
    /\ frame' = NoFrame
    /\ seg' = NoSeg
    /\ UNCHANGED <<now, jitter, channels, nSegs, idx, bpm, busy,
                   start_time, outcome, warnings, stop_event, deadline,
                   reporterVars, calls, call>>

(* Variant: the drain loop is left without polling get_busy(). *)
Draining_without_poll ==
    /\ pc = "drain"
    /\ pc' = "finally"
    /\ UNCHANGED <<now, jitter, channels, frame, nSegs, idx, seg, bpm, busy,
                   start_time, outcome, warnings, exc, stop_event, deadline,
                   reporterVars, calls, call>>

(* lines 134-135: while pygame.mixer.music.get_busy(): time.sleep(0.1).     *)
(* One poll: the loop ends, or sleeps 0.1 s while the audio can still play. *)
Draining ==
    /\ pc = "drain"
    /\ IF busy
       THEN /\ now - start_time < MaxAudio
            /\ pc' = "drain_sleep"
            /\ deadline' = now + DrainPollTicks
       ELSE /\ pc' = "finally"
            /\ deadline' = deadline
    /\ UNCHANGED <<now, jitter, channels, frame, nSegs, idx, seg, bpm, busy,
                   start_time, outcome, warnings, exc, stop_event,
                   reporterVars, calls, call>>

(* line 135: time.sleep(0.1) returns *)
DrainingWakes ==
    /\ pc = "drain_sleep"
    /\ now >= deadline
    /\ pc' = "drain"
    /\ UNCHANGED <<now, jitter, channels, frame, nSegs, idx, seg, bpm, busy,
                   start_time, outcome, warnings, exc, stop_event, deadline,
                   reporterVars, calls, call>>

(* Variant: the finalizer stops the thread but forgets gpio.all_off(). *)
Done_without_all_off ==
    /\ pc = "finally"
    /\ busy' = FALSE
    /\ stop_event' = TRUE
    /\ deadline' = now + JoinTicks
    /\ pc' = "join"
    /\ UNCHANGED <<now, jitter, channels, frame, nSegs, idx, seg, bpm, start_time,
                   outcome, warnings, exc, reporterVars, calls, call>>

(* Variant: the finalizer never sets the event. *)
Done_without_set ==
    /\ pc = "finally"
    /\ channels' = gpio_all_off(channels)
    /\ busy' = FALSE
    /\ deadline' = now + JoinTicks
    /\ pc' = "join"
    /\ UNCHANGED <<now, jitter, frame, nSegs, idx, seg, bpm, start_time, outcome,
                   warnings, exc, stop_event, reporterVars, calls, call>>

(* lines 137-146, up to the start of join *)
Done ==
    /\ pc = "finally"
    /\ channels' = gpio_all_off(channels)
    /\ busy' = FALSE
    /\ stop_event' = TRUE
    /\ deadline' = now + JoinTicks
    /\ pc' = "join"
    /\ UNCHANGED <<now, jitter, frame, nSegs, idx, seg, bpm, start_time, outcome,
                   warnings, exc, reporterVars, calls, call>>

(* line 146: ts_thread.join(timeout=1.0) returns *)
Join ==
    /\ pc = "join"
    /\ rpc = "done" \/ now >= deadline
    /\ pc' = "exited"
    /\ UNCHANGED <<now, jitter, channels, frame, nSegs, idx, seg, bpm, busy,
                   start_time, outcome, warnings, exc, stop_event, deadline,
                   reporterVars, calls, call>>

(* Variant: the loop test never sees the event. *)
ReporterCheck_ignores_event ==
    /\ rpc = "check"
    /\ rpc' = "body"
    /\ UNCHANGED <<now, jitter, channels, frame, schedVars, next_t, rwake, reports, calls, call>>

(* timestamp_printer, line 39: the loop test *)
ReporterCheck ==
    /\ rpc = "check"
    /\ rpc' = IF stop_event THEN "done" ELSE "body"
    /\ UNCHANGED <<now, jitter, channels, frame, schedVars, next_t, rwake, reports, calls, call>>

(* Variant: the thread switches the channels on when it prints. *)
ReporterBody_writes_channels ==
    /\ rpc = "body"
    /\ IF now - start_time >= next_t
       THEN /\ reports' = Append(reports, next_t)
            /\ next_t' = next_t + ReportTicks
            /\ channels' = gpio_all_on(channels)
       ELSE UNCHANGED <<reports, next_t, channels>>
    /\ rpc' = "sleep"
    /\ rwake' = now + ReportPollTicks
    /\ UNCHANGED <<now, jitter, frame, schedVars, calls, call>>

(* Variant: one iteration prints every boundary the elapsed time has       *)
(* reached (while in place of if).                                          *)
ReporterBody_prints_all_pending ==
    /\ rpc = "body"
    /\ IF now - start_time >= next_t
       THEN LET n == ((now - start_time - next_t) \div ReportTicks) + 1
            IN /\ reports' = reports \o [i \in 1..n |-> next_t + (i - 1) * ReportTicks]
               /\ next_t' = next_t + n * ReportTicks
       ELSE UNCHANGED <<reports, next_t>>
    /\ rpc' = "sleep"
    /\ rwake' = now + ReportPollTicks
    /\ UNCHANGED <<now, jitter, channels, frame, schedVars, calls, call>>

(* timestamp_printer, lines 40-44: one iteration, up to the call of         *)
(* time.sleep(0.05)                                                         *)
ReporterBody ==
    /\ rpc = "body"
    /\ IF now - start_time >= next_t
       THEN /\ reports' = Append(reports, next_t)
            /\ next_t' = next_t + ReportTicks
       ELSE UNCHANGED <<reports, next_t>>
    /\ rpc' = "sleep"
    /\ rwake' = now + ReportPollTicks
    /\ UNCHANGED <<now, jitter, channels, frame, schedVars, calls, call>>

(* timestamp_printer, line 44: time.sleep(0.05) returns *)
ReporterWakes ==
    /\ rpc \in {"sleep", "stalled"}
    /\ now >= rwake
    /\ rpc' = "check"
    /\ UNCHANGED <<now, jitter, channels, frame, schedVars, next_t, rwake, reports,
                   calls, call>>

(* timestamp_printer, line 44: the thread is held up in its sleep (the      *)
(* machine is busy, the process is stopped for a while): time.sleep(0.05)   *)
(* returns StallTicks late.  A sleep is held up once.                       *)
StallTicks == ReportTicks
ReporterStalls ==
    /\ rpc = "sleep"
    /\ rpc' = "stalled"
    /\ rwake' = rwake + StallTicks
    /\ UNCHANGED <<now, jitter, channels, frame, schedVars, next_t, reports, calls, call>>

TimedStep ==
    \/ blink_all \/ alternate_trees_and_bulbs \/ wave_trees \/ wave_all
    \/ trees_cascade \/ chase_bulbs \/ sparkle \/ finale_flash

Init ==
    /\ InitCommon
    /\ pc = "start"
    /\ busy = FALSE
    /\ nSegs \in 0..MaxSegs
    /\ bpm \in Bpms
    /\ \E r \in ShowRegistries : channels = [n \in r |-> FALSE]

Next ==
    \/ RunShowStart \/ PlaybackEnds \/ NextSection \/ AwaitSegment
    \/ RunningPattern \/ PatternReturns \/ Draining \/ DrainingWakes \/ Done \/ Join
    \/ ReporterCheck \/ ReporterBody \/ ReporterWakes
    \/ TimedStep
    \/ Tick

Spec == Init /\ [][Next]_vars

(* Every thread that can take a step eventually takes one, and the clock    *)
(* a thread waits for advances.                                             *)
SchedulerStep ==
    \/ RunShowStart \/ NextSection \/ AwaitSegment \/ RunningPattern
    \/ PatternReturns \/ Draining \/ DrainingWakes \/ Done \/ Join \/ TimedStep
ReporterStep == ReporterCheck \/ ReporterBody \/ ReporterWakes

FairSpec ==
    /\ Spec
    /\ WF_vars(SchedulerStep)
    /\ WF_vars(ReporterStep)
    /\ WF_vars(Tick)

(* run_show with a timestamp thread that can be held up, on the shows of    *)
(* at most MaxStallSegs sections: while the thread is held up the main      *)
(* thread goes on and the clock runs, so that the thread wakes with one     *)
(* boundary or with several boundaries behind it.                           *)
MaxStallSegs == 1
InitStall == Init /\ nSegs <= MaxStallSegs
NextStall == Next \/ ReporterStalls
SpecStall == InitStall /\ [][NextStall]_vars

----------------------------------------------------------------------------
(* run_show on one show file: blink_all from 0 to 2 s with interval 0.5 s,  *)
(* a pattern the library does not have from 2 to 3 s, all_off from 3 to     *)
(* 4 s; no bpm; the registry has the two channels T1 and B2.  The show is   *)
(* run whole, or cut after its first sections.                              *)
ExampleSections ==
    << [pattern |-> "blink_all", start |-> 0, end |-> 2 * TicksPerSecond,
        options |-> ("interval" :> (TicksPerSecond \div 2))],
       [pattern |-> "nonexistent", start |-> 2 * TicksPerSecond,
        end |-> 3 * TicksPerSecond, options |-> NoOptions],
       [pattern |-> "all_off", start |-> 3 * TicksPerSecond,
        end |-> 4 * TicksPerSecond, options |-> NoOptions] >>

(* lines 104-110 on the sections of the example *)
NextSectionOfExample ==
    /\ pc = "for"
    /\ IF idx = nSegs
       THEN /\ pc' = "drain"
            /\ seg' = NoSeg
            /\ UNCHANGED <<idx, outcome>>
       ELSE LET s == ExampleSections[idx + 1]
            IN /\ idx' = idx + 1
               /\ IF s.end - s.start <= 0
                  THEN /\ outcome' = Append(outcome, "skipped_duration")
                       /\ seg' = [NoSeg EXCEPT !.start = s.start, !.end = s.end]
                       /\ pc' = "for"
                  ELSE /\ outcome' = outcome
                       /\ seg' = s
                       /\ pc' = "wait"
    /\ UNCHANGED <<now, jitter, channels, frame, nSegs, bpm, busy, start_time,
                   warnings, exc, stop_event, deadline, reporterVars, calls, call>>

InitExample ==
    /\ InitCommon
    /\ pc = "start"
    /\ busy = FALSE
    /\ nSegs \in 0..Len(ExampleSections)
    /\ bpm = NoBpm
    /\ channels = [n \in {"T1", "B2"} |-> FALSE]

NextExample ==
    \/ RunShowStart \/ PlaybackEnds \/ NextSectionOfExample \/ AwaitSegment
    \/ RunningPattern \/ PatternReturns \/ Draining \/ DrainingWakes \/ Done \/ Join
    \/ ReporterCheck \/ ReporterBody \/ ReporterWakes
    \/ blink_all
    \/ Tick

SpecExample == InitExample /\ [][NextExample]_vars

----------------------------------------------------------------------------
(* show_simulator.py: run_simulation.  pc is the position of the main       *)
(* thread, frame the activation of the routine running in the pattern       *)
(* thread, and call holds the two locals the threads share and the clock    *)
(* of line 296: the time of its previous tick, the length of its frame, and *)
(* whether and until when the main thread is inside clock.tick(60).  Each   *)
(* loop tests its condition once per frame.  A call of visualizer.update    *)
(* that returns True changes nothing; one that returns False (the user      *)
(* quits) is the input quit = TRUE.                                         *)
SimPatterns == {"blink_all", "finale_flash", "all_off", "TREE_NAMES", "nonexistent"}
(* The sections simulated: blink_all with options, the rest without *)
SimSegments ==
    {s \in Segments :
        /\ s.pattern \in SimPatterns
        /\ (s.options = NoOptions) <=> (s.pattern # "blink_all")}

SimLocals(running, pattern_thread_done, last_tick, frm) ==
    [fn |-> "run_simulation", running |-> running,
     pattern_thread_done |-> pattern_thread_done,
     last_tick |-> last_tick, frame |-> frm, in_tick |-> FALSE, tick_end |-> 0]

simShared == <<jitter, nSegs, bpm, outcome, exc, stop_event, reporterVars, calls>>

(* lines 276-297: play_song starts playback, or goes on without audio *)
SimulationStart ==
    /\ pc = "start"
    /\ \E found \in BOOLEAN : busy' = found
    /\ start_time' = now
    /\ \E frm \in Frames : call' = SimLocals(TRUE, FALSE, now * UnitsPerTick, frm)
    /\ pc' = "for"
    /\ UNCHANGED <<now, channels, frame, idx, seg, warnings, deadline, simShared>>

(* lines 300-310: the for loop fetches the next section, or ends *)
SimNextSection ==
    /\ pc = "for"
    /\ IF idx = nSegs
       THEN /\ pc' = "sim_drain"
            /\ seg' = NoSeg
            /\ idx' = idx
       ELSE \E s \in SimSegments :
              /\ idx' = idx + 1
              /\ IF s.end - s.start <= 0
                 THEN seg' = NoSeg /\ pc' = "for"
                 ELSE seg' = s /\ pc' = "wait"
    /\ UNCHANGED <<now, channels, frame, busy, start_time, warnings, call, deadline,
                   simShared>>

(* lines 317, 354 and 364: clock.tick(60) is called *)
clock_tick_called ==
    [call EXCEPT !.in_tick = TRUE, !.tick_end = TickEnd(call.last_tick, call.frame)]

(* lines 313-320: one test of the wait loop.  Before the section's start    *)
(* the display is updated and clock.tick(60) is called, or a quit leaves    *)
(* the for loop and skips the drain loop; from the start on the loop ends.  *)
SimAwaitSegment(quit) ==
    /\ pc = "wait" /\ ~call.in_tick
    /\ IF now - start_time < seg.start
       THEN IF quit
            THEN /\ call' = [call EXCEPT !.running = FALSE]
                 /\ pc' = "finally"
            ELSE /\ call' = clock_tick_called
                 /\ pc' = pc
       ELSE /\ ~quit
            /\ call' = call
            /\ pc' = "thread"
    /\ UNCHANGED <<now, channels, frame, idx, seg, busy, start_time, warnings,
                   deadline, simShared>>

(* lines 325-346: the lookup, then the pattern thread is started.  The call *)
(* pattern_func(gpio, duration=duration, **args) is made in the thread: the *)
(* thread is alive at the routine's entry when the call binds, and before   *)
(* the call when it will not.                                               *)
StartPatternThread ==
    /\ pc = "thread"
    /\ IF ~hasattr(seg.pattern)
       THEN /\ warnings' = warnings + 1
            /\ pc' = "for"
            /\ seg' = NoSeg
            /\ UNCHANGED <<frame, call>>
       ELSE /\ call' = [call EXCEPT !.pattern_thread_done = FALSE]
            /\ frame' = IF CallBinds(seg.pattern, seg.options)
                        THEN NewFrame(seg.pattern, seg.end - seg.start,
                                      ArgInterval(seg.pattern, AsItIs(seg.options, bpm)),
                                      ArgOnFraction(seg.options))
                        ELSE [NoFrame EXCEPT !.fn = seg.pattern, !.pc = "calling"]
            /\ pc' = "visualize"
            /\ UNCHANGED <<warnings, seg>>
    /\ UNCHANGED <<now, channels, idx, busy, start_time, deadline, simShared>>

(* lines 340-342, run_pattern in the thread: the call                       *)
(* pattern_func(gpio, duration=duration, **args) does not bind (the routine *)
(* has no such parameter, or the attribute is not a function) and raises    *)
(* TypeError; the thread ends and the line that sets the flag is not        *)
(* reached.                                                                 *)
run_pattern_call ==
    /\ call.fn = "run_simulation"
    /\ frame.pc = "calling"
    /\ frame' = [frame EXCEPT !.pc = "raised", !.exc = "TypeError"]
    /\ UNCHANGED <<now, channels, pc, idx, seg, busy, start_time, warnings, call,
                   deadline, simShared>>

(* lines 340-343, run_pattern: the statement after the call, reached when   *)
(* the call returns                                                         *)
run_pattern ==
    /\ call.fn = "run_simulation"
    /\ frame.pc = "returned"
    /\ ~call.pattern_thread_done
    /\ call' = [call EXCEPT !.pattern_thread_done = TRUE]
    /\ UNCHANGED <<now, channels, frame, pc, idx, seg, busy, start_time, warnings,
                   deadline, simShared>>

(* lines 349-356: one test of while not pattern_thread_done and running.    *)
(* With the flag not set the display is updated and clock.tick(60) is       *)
(* called; the loop is left when the flag is set or by a quit, and then     *)
(* thread.join(timeout=0.1) is called.                                      *)
VisualizeWhileRunning(quit) ==
    /\ pc = "visualize" /\ ~call.in_tick
    /\ IF ~call.pattern_thread_done /\ ~quit
       THEN /\ call' = clock_tick_called
            /\ UNCHANGED <<pc, deadline>>
       ELSE /\ call.pattern_thread_done => ~quit
            /\ call' = IF quit THEN [call EXCEPT !.running = FALSE] ELSE call
            /\ pc' = "thread_join"
            /\ deadline' = now + ThreadJoinTicks
    /\ UNCHANGED <<now, channels, frame, idx, seg, busy, start_time, warnings,
                   simShared>>

(* lines 356 and 301-302: thread.join(timeout=0.1) returns when the thread  *)
(* has ended or the timeout has passed; after a quit the for loop is left   *)
ThreadJoin ==
    /\ pc = "thread_join"
    /\ ThreadEnded \/ now >= deadline
    /\ pc' = IF call.running THEN "for" ELSE "finally"
    /\ seg' = NoSeg
    /\ UNCHANGED <<now, channels, frame, idx, busy, start_time, warnings, call,
                   deadline, simShared>>

(* lines 359-364: one test of the drain loop.  While the playback goes on   *)
(* the display is updated and clock.tick(60) is called; the loop ends with  *)
(* the playback, or by a quit.                                              *)
SimDraining(quit) ==
    /\ pc = "sim_drain" /\ ~call.in_tick
    /\ IF busy /\ ~quit
       THEN /\ call' = clock_tick_called
            /\ pc' = pc
       ELSE /\ ~busy => ~quit
            /\ call' = call
            /\ pc' = "finally"
    /\ UNCHANGED <<now, channels, frame, idx, seg, busy, start_time, warnings,
                   deadline, simShared>>

(* lines 317, 354 and 364: clock.tick(60) returns, and the loop tests its   *)
(* condition again                                                          *)
clock_tick ==
    /\ call.fn = "run_simulation" /\ call.in_tick
    /\ now >= call.tick_end \div UnitsPerTick
    /\ call' = [call EXCEPT !.in_tick = FALSE, !.tick_end = 0,
                            !.last_tick = After(call.tick_end)]
    /\ UNCHANGED <<now, channels, frame, pc, idx, seg, busy, start_time, warnings,
                   deadline, simShared>>

(* lines 366-368: finally, gpio.all_off() starts.  Its loop over the dict   *)
(* is not atomic: a pattern thread that is still alive after a quit can     *)
(* run its own all_on() or all_off() across it.                             *)
SimFinally ==
    /\ pc = "finally"
    /\ channels' = sim_all_off(channels)
    /\ pc' = "sim_all_off"
    /\ UNCHANGED <<now, frame, idx, seg, busy, start_time, warnings, call, deadline,
                   simShared>>

(* lines 368-373: gpio.all_off() ends, the playback is stopped and          *)
(* run_simulation returns.  A channel the pattern thread switched on        *)
(* while the loop ran stays on when the thread wrote it after the loop      *)
(* did (kept), and is off when the loop wrote it last.                      *)
SimAllOffEnds(kept) ==
    /\ pc = "sim_all_off"
    /\ channels' = [n \in DOMAIN channels |-> channels[n] /\ n \in kept]
    /\ busy' = FALSE
    /\ pc' = "exited"
    /\ UNCHANGED <<now, frame, idx, seg, start_time, warnings, call, deadline,
                   simShared>>

InitSim ==
    /\ InitCommon
    /\ pc = "start"
    /\ busy = FALSE
    /\ nSegs \in 0..MaxSegs
    /\ bpm = NoBpm
    /\ channels = SimulatorGPIO_channels

(* The steps of the main thread that need no quit *)
SimulatorStep ==
    \/ SimulationStart \/ SimNextSection \/ SimAwaitSegment(FALSE)
    \/ StartPatternThread \/ (~WindowClosed /\ VisualizeWhileRunning(FALSE))
    \/ ThreadJoin
    \/ clock_tick
    \/ SimDraining(FALSE) \/ SimFinally
    \/ \E kept \in SUBSET {n \in DOMAIN channels : channels[n]} : SimAllOffEnds(kept)
UserQuits ==
    \/ SimAwaitSegment(TRUE) \/ VisualizeWhileRunning(TRUE) \/ SimDraining(TRUE)
(* The pattern thread is a daemon thread and run_simulation is the last     *)
(* statement of the script (line 391): the thread and the clock are         *)
(* followed until run_simulation has returned.                              *)
PatternThreadStep ==
    pc # "exited" /\ (run_pattern_call \/ blink_all \/ finale_flash \/ run_pattern)
SimTick == pc # "exited" /\ ~SongOver /\ Tick

NextSim ==
    \/ SimulatorStep
    \/ UserQuits
    \/ PatternThreadStep
    \/ PlaybackEnds
    \/ SimTick

SpecSim == InitSim /\ [][NextSim]_vars

(* Both threads, the clock and the playback go on; the user need not quit. *)
FairSpecSim ==
    /\ SpecSim
    /\ WF_vars(SimulatorStep)
    /\ WF_vars(PatternThreadStep)
    /\ WF_vars(PlaybackEnds)
    /\ WF_vars(SimTick)

----------------------------------------------------------------------------
(* generate_show.py.  Times are whole numbers of units of 0.02 s, so that   *)
(* round(t, 1) never meets a tie.  An analysis is a record: the song's      *)
(* duration, and an energy profile (in percent) that has one level before   *)
(* duration - 15 s and one level from there on, the tempo, and the way the  *)
(* installed numpy computes with a float32 and a Python float.  The option  *)
(* values of a section are the floats the code derives from the tempo and   *)
(* the energy.                                                              *)
UnitsPerSecond == 50
UnitsPerTenth == UnitsPerSecond \div 10
FinaleDuration == 15 * UnitsPerSecond       \* detect_finale(finale_duration=15.0)
BuildUpLength == 8 * UnitsPerSecond         \* finale_start + 8.0
IntenseEnd == 12 * UnitsPerSecond           \* finale_start + 12.0
FinalLength == 5 * UnitsPerSecond           \* duration - 5.0

(* round(t, 1) for t >= 0 *)
round1(t) ==
    LET r == t % UnitsPerTenth
    IN IF 2 * r < UnitsPerTenth THEN t - r ELSE t + (UnitsPerTenth - r)

Min(a, b) == IF a <= b THEN a ELSE b

(* get_energy_at_time(analysis, t) for t = t2 / 2: the energy at the first  *)
(* sample time >= t, or at the last sample                                  *)
get_energy_at_time(analysis, t2) ==
    LET at == Min((t2 + 1) \div 2, analysis.duration)
    IN IF at >= analysis.duration - FinaleDuration THEN analysis.tail
       ELSE analysis.body

(* select_pattern_for_energy: the candidates np.random.choice draws from *)
select_pattern_for_energy(energy, prev_pattern) ==
    LET candidates ==
            IF energy < 30 THEN {"sparkle", "wave_trees"}
            ELSE IF energy < 60
            THEN {"alternate_trees_and_bulbs", "chase_bulbs", "wave_trees"}
            ELSE {"blink_all", "alternate_trees_and_bulbs", "chase_bulbs"}
    IN IF prev_pattern \in candidates /\ Cardinality(candidates) > 1
       THEN candidates \ {prev_pattern}
       ELSE candidates

(* A float literal of the source with a finite decimal expansion *)
Literal(num, den) == FloatDiv(num, den)
(* An energy of the model (in percent) as the value the code computes      *)
(* with: librosa.load gives float32 samples, so that an element of          *)
(* analysis['energy'] is a numpy.float32, the one next to energy / 100.     *)
EnergyOf(energy) == float32(FloatDiv(energy, 100))

(* A numpy.float32 combined with a Python float: a numpy that promotes by   *)
(* value ("legacy", before 2.0) computes in doubles, one that takes the     *)
(* Python float for a weak scalar ("weak", from 2.0) turns it into a        *)
(* float32 and computes in float32.                                         *)
Promotions == {"legacy", "weak"}
times(promotion, e, x) ==
    IF promotion = "weak" THEN float32_mul(e, float32(x)) ELSE FloatTimes(e, x)
plus(promotion, x, e) ==
    IF promotion = "weak" THEN float32_add(float32(x), e) ELSE FloatAdd(x, e)
minus(promotion, x, e) ==
    IF promotion = "weak" THEN float32_sub(float32(x), e) ELSE FloatSub(x, e)
less(promotion, x, y) ==
    IF promotion = "weak" THEN FloatLess(float32(x), float32(y)) ELSE FloatLess(x, y)

(* get_pattern_options, lines 109-143: 60.0 / tempo raises for tempo 0      *)
(* whatever the pattern is; max(0.06, x) is x when x > 0.06 and min(0.8, x) *)
(* is x when x < 0.8, and float() of a float32 is the double of its value.  *)
get_pattern_options(pattern, tempo, energy, promotion) ==
    IF tempo = 0 THEN Raised("ZeroDivisionError")
    ELSE LET beat_duration == FloatDiv(60, tempo)
             e == EnergyOf(energy)
         IN Returned(
               CASE pattern = "sparkle" ->
                      LET i == minus(promotion, Literal(15, 100),
                                     times(promotion, e, Literal(9, 100)))
                          f == plus(promotion, Literal(3, 10),
                                    times(promotion, e, Literal(1, 2)))
                      IN [interval |-> IF less(promotion, Literal(6, 100), i) THEN i
                                       ELSE Literal(6, 100),
                          on_fraction |-> IF less(promotion, f, Literal(8, 10)) THEN f
                                          ELSE Literal(8, 10)]
                 [] pattern = "wave_trees" ->
                      [step_interval |-> FloatOver(beat_duration, 2, 1)]
                 [] pattern = "alternate_trees_and_bulbs" ->
                      [interval |-> FloatOver(beat_duration, 2, 1)]
                 [] pattern = "blink_all" ->
                      [interval |-> IF less(promotion, Literal(7, 10), e)
                                    THEN FloatOver(beat_duration, 2, 1)
                                    ELSE FloatOver(beat_duration, 3, 2)]
                 [] pattern = "chase_bulbs" ->
                      [step_interval |-> FloatOver(beat_duration, 4, 1)]
                 [] pattern = "finale_flash" -> [interval |-> Literal(10, 100)]
                 [] OTHER -> NoOptions)

(* detect_finale: None (<<>>) or the finale's start *)
detect_finale(analysis) ==
    LET finale_start == analysis.duration - FinaleDuration
    IN IF finale_start < 0 THEN <<>>
       ELSE IF analysis.tail > 65 THEN <<finale_start>>
       ELSE <<>>

(* lines 216-246 in the order the code has them, for a tempo that is not 0: *)
(* the third finale section runs from duration - 5.0                        *)
FinaleSections(analysis, finale_start) ==
    LET beat_duration == FloatDiv(60, analysis.tempo)
    IN << [start |-> round1(finale_start),
           end |-> round1(finale_start + BuildUpLength), pattern |-> "blink_all",
           options |-> [interval |-> FloatOver(beat_duration, 2, 1)]],
          [start |-> round1(finale_start + BuildUpLength),
           end |-> round1(finale_start + IntenseEnd),
           pattern |-> "alternate_trees_and_bulbs",
           options |-> [interval |-> FloatOver(beat_duration, 3, 1)]],
          [start |-> round1(analysis.duration - FinalLength),
           end |-> round1(analysis.duration), pattern |-> "finale_flash",
           options |-> [interval |-> Literal(8, 100)]] >>

(* The songs and section lengths the generator is run on *)
MaxSong == 20
Durations == {sec * UnitsPerSecond + f : sec \in 0..MaxSong, f \in {0, 2, 3}}
SectionLengths == {5 * UnitsPerSecond, 12 * UnitsPerSecond}
Energies == {20, 50, 80}
Tempos == {0, 120, 186}
GeneratedPatterns ==
    {"sparkle", "wave_trees", "alternate_trees_and_bulbs", "blink_all",
     "chase_bulbs", "finale_flash"}

(* The options of the sections the model's songs give, computed once and    *)
(* looked up.                                                               *)
PatternOptions ==
    [pattern \in GeneratedPatterns, tempo \in Tempos, energy \in Energies,
     promotion \in Promotions |->
        get_pattern_options(pattern, tempo, energy, promotion)]

(* generate_show is called: analyze_audio has returned, detect_sections     *)
(* starts with current_time = 0.0 and prev_pattern = None.                  *)
GenerateShowStart(duration, tempo, section_length, body, tail, promotion) ==
    /\ pc = "harness" /\ call = NoCall
    /\ call' = [fn |-> "generate_show", stage |-> "detect_sections",
                exc |-> "none",
                analysis |-> [duration |-> duration, tempo |-> tempo,
                              body |-> body, tail |-> tail,
                              promotion |-> promotion],
                section_length |-> section_length,
                current_time |-> 0, prev_pattern |-> "None", sections |-> <<>>]
    /\ UNCHANGED normFrame

(* detect_sections, lines 156-179: one iteration of the loop, or its end;   *)
(* an exception of get_pattern_options leaves generate_show, which writes   *)
(* no file.                                                                 *)
detect_sections ==
    /\ pc = "harness" /\ call.fn = "generate_show" /\ call.stage = "detect_sections"
    /\ IF call.current_time < call.analysis.duration
       THEN LET section_end == Min(call.current_time + call.section_length,
                                   call.analysis.duration)
                section_energy == get_energy_at_time(call.analysis,
                                                     call.current_time + section_end)
            IN \E pattern \in select_pattern_for_energy(section_energy, call.prev_pattern) :
                  LET options == PatternOptions[pattern, call.analysis.tempo,
                                                section_energy,
                                                call.analysis.promotion]
                  IN IF options.exc # "none"
                     THEN call' = [call EXCEPT !.stage = "raised", !.exc = options.exc]
                     ELSE call' = [call EXCEPT
                                     !.sections =
                                         Append(@, [start |-> round1(call.current_time),
                                                    end |-> round1(section_end),
                                                    pattern |-> pattern,
                                                    options |-> options.val]),
                                     !.prev_pattern = pattern,
                                     !.current_time = section_end]
       ELSE call' = [call EXCEPT !.stage = "detect_finale"]
    /\ UNCHANGED normFrame

(* generate_show, lines 215-262: the finale replaces the sections that end  *)
(* after its start, and the show is written                                 *)
generate_show ==
    /\ pc = "harness" /\ call.fn = "generate_show" /\ call.stage = "detect_finale"
    /\ LET finale_start == detect_finale(call.analysis)
       IN IF finale_start # <<>> /\ finale_start[1] # 0
          THEN IF call.analysis.tempo = 0
               THEN call' = [call EXCEPT !.stage = "raised",
                                         !.exc = "ZeroDivisionError"]
               ELSE call' = [call EXCEPT
                               !.stage = "written",
                               !.sections =
                                   SelectSeq(@, LAMBDA sec : sec.end <= finale_start[1])
                                      \o FinaleSections(call.analysis, finale_start[1])]
          ELSE call' = [call EXCEPT !.stage = "written"]
    /\ UNCHANGED normFrame

NextGen ==
    \/ \E duration \in Durations, tempo \in Tempos, section_length \in SectionLengths,
          body \in Energies, tail \in Energies, promotion \in Promotions :
          GenerateShowStart(duration, tempo, section_length, body, tail, promotion)
    \/ detect_sections
    \/ generate_show

SpecGen == InitNorm /\ [][NextGen]_vars

----------------------------------------------------------------------------
(* Properties of run_show                                                   *)

Spawned == rpc # "none"
Last(q) == q[Len(q)]

(* C1: once playback has started and the timestamp thread is spawned, every *)
(* channel of the registry is off from the finalizer's all_off on, whatever *)
(* ended the dispatch loop: the timeline and the playback running out, or   *)
(* an exception out of a pattern call.                                      *)
C1_AllOffOnExit ==
    (Spawned /\ pc \in {"join", "exited"}) => AllOff(channels)

(* run_show has exited after time.sleep raised inside a routine that had    *)
(* switched channels on.                                                    *)
C1_Witness ==
    /\ pc = "exited" /\ Spawned
    /\ exc = "ValueError"
    /\ outcome = <<"dispatched">>
    /\ AllOff(channels)

(* C2: whenever the dispatch loop has ended, the event is set by the time   *)
(* run_show waits for the thread; the thread then eventually leaves its     *)
(* loop; and run_show eventually returns from join and exits.               *)
C2_CleanupFinishes ==
    /\ [](pc \in {"join", "exited"} /\ Spawned => stop_event)
    /\ (pc = "finally" ~> pc = "exited")
    /\ ((stop_event /\ Spawned) ~> rpc = "done")

(* run_show has exited and the thread has observed the event. *)
C2_Witness == pc = "exited" /\ stop_event /\ rpc = "done"

(* C3: when run_show exits, every section of the timeline has been either  *)
(* dispatched or skipped: the decisions taken number the sections.          *)
C3_AllHandled ==
    (pc = "exited" /\ Spawned) => Len(outcome) = nSegs

(* C4: a section with end > start whose pattern is no attribute of the      *)
(* library is handled, once its start is reached, by one step that prints   *)
(* one warning, creates no activation, changes no channel, takes no time    *)
(* and goes on to the next section with no exception; nothing else prints   *)
(* a warning.                                                               *)
C4_Absent == seg.pattern \notin (Routines \cup OtherAttributes)
C4_Step ==
    /\ (pc = "dispatch" /\ pc' # "dispatch" /\ C4_Absent) =>
          /\ seg.end > seg.start
          /\ now - start_time >= seg.start
          /\ warnings' = warnings + 1
          /\ frame' = frame /\ frame.pc = "idle"
          /\ channels' = channels
          /\ now' = now
          /\ pc' = "for" /\ idx' = idx /\ exc' = "none"
          /\ outcome' = Append(outcome, "skipped_unknown")
    /\ warnings' # warnings => (pc = "dispatch" /\ C4_Absent)
C4_UnknownPatternSkipped == [][C4_Step]_vars

(* An unknown pattern was skipped with one warning and the next section's   *)
(* routine is running.                                                      *)
C4_Witness ==
    /\ warnings = 1
    /\ outcome = <<"skipped_unknown", "dispatched">>
    /\ pc = "running" /\ frame.pc = "sleep"

(* C5: fetching a section with end <= start is one step that stays at the   *)
(* head of the loop: no wait for the start, no time, no lookup, no          *)
(* activation, no channel change.                                           *)
C5_Step ==
    (pc = "for" /\ idx' = idx + 1 /\ seg'.end <= seg'.start) =>
        /\ pc' = "for"
        /\ now' = now
        /\ channels' = channels
        /\ frame' = frame
        /\ warnings' = warnings /\ exc' = exc
        /\ outcome' = Append(outcome, "skipped_duration")
C5_ZeroDurationSkipped == [][C5_Step]_vars

(* A section whose start still lies ahead has been skipped for its duration *)
(* and the loop is about to fetch the next one.                             *)
C5_Witness ==
    /\ pc = "for" /\ idx = 1 /\ nSegs = 2
    /\ seg.start > 0 /\ seg.end <= seg.start
    /\ now - start_time < seg.start
    /\ outcome = <<"skipped_duration">>

(* C6: the lookup and the call of a section happen at an elapsed time that  *)
(* is at least the section's start.                                         *)
C6_NotBeforeStart ==
    /\ pc \in {"dispatch", "running"} => now - start_time >= seg.start
    /\ pc = "running" => frame.t0 - start_time >= seg.start

(* A routine runs for a section that starts after the playback's start. *)
C6_Witness ==
    /\ pc = "running" /\ frame.pc = "sleep"
    /\ seg.start > 0
    /\ frame.t0 - start_time = seg.start

(* C7: while a routine executes, run_show is inside the call it made for    *)
(* the section fetched last; it fetches, awaits or dispatches nothing.      *)
C7_Sequential ==
    frame.pc \in {"called", "sleep"} =>
        /\ pc = "running"
        /\ Len(outcome) = idx
        /\ frame.fn = seg.pattern

(* The routine of the second section runs after the first one returned. *)
C7_Witness ==
    /\ pc = "running" /\ frame.pc = "sleep"
    /\ idx = 2 /\ outcome = <<"dispatched", "dispatched">>

(* C8: the index grows by one at a time, at the head of the loop only; each *)
(* decision is taken for the section fetched last; the drain loop is        *)
(* entered with every section handled; the finalizer is entered from the    *)
(* drain loop or with an exception.                                         *)
C8_Step ==
    /\ idx' # idx => (pc = "for" /\ idx' = idx + 1 /\ idx' <= nSegs)
    /\ outcome' # outcome =>
          /\ Len(outcome') = idx'
          /\ SubSeq(outcome', 1, Len(outcome)) = outcome
          /\ Len(outcome') = Len(outcome) + 1
    /\ (pc' = "finally" /\ pc # "finally") => (pc = "drain" \/ exc' # "none")
C8_InOrder ==
    /\ [][C8_Step]_vars
    /\ [](pc = "drain" => (idx = nSegs /\ Len(outcome) = nSegs))

(* The second section is dispatched although its whole window had passed    *)
(* while the first section's routine ran.                                   *)
C8_Witness ==
    /\ pc = "running" /\ idx = 2
    /\ outcome = <<"dispatched", "dispatched">>
    /\ frame.t0 - start_time >= seg.end

(* C14: a step of the timestamp thread changes nothing but the thread's own  *)
(* variables, and whether run_show can go on before its join does not       *)
(* depend on it; the channels are written only by run_show's thread, in a   *)
(* routine it called or in its finalizer; the clock reference is written    *)
(* only when playback starts.                                               *)
C14_ReporterMoved == rpc # "none" /\ reporterVars' # reporterVars
C14_BeforeJoin ==
    \/ NextSection \/ AwaitSegment \/ RunningPattern \/ PatternReturns
    \/ Draining \/ DrainingWakes \/ Done \/ TimedStep
C14_Step ==
    /\ C14_ReporterMoved =>
          /\ UNCHANGED <<now, jitter, channels, frame, schedVars, calls, call>>
          /\ (ENABLED C14_BeforeJoin)' = ENABLED C14_BeforeJoin
    /\ channels' # channels =>
          /\ reporterVars' = reporterVars
          /\ \/ pc = "running" /\ frame.pc \in {"called", "sleep"}
             \/ pc = "finally"
    /\ start_time' # start_time => (pc = "start" /\ rpc = "none")
C14_ReporterIsolated == [][C14_Step]_vars

(* The thread has printed a boundary while a routine holds channels on. *)
C14_Witness ==
    /\ rpc = "check" /\ Len(reports) >= 2
    /\ pc = "running" /\ frame.pc = "sleep"
    /\ \E n \in DOMAIN channels : channels[n]

(* C15: the boundaries printed are 0 s, 1 s, 2 s, ... with none missing and  *)
(* none repeated, the next one to print follows the last one printed, each  *)
(* was printed at an elapsed time that had reached it, and one iteration of *)
(* the loop prints at most one: a print is a step of the loop body that     *)
(* appends the pending boundary and goes to the sleep that ends the         *)
(* iteration.                                                               *)
C15_Step ==
    reports' # reports =>
        /\ rpc = "body" /\ rpc' = "sleep"
        /\ now - start_time >= next_t
        /\ reports' = Append(reports, next_t)
        /\ next_t' = next_t + ReportTicks
C15_BoundariesInOrder ==
    /\ [][C15_Step]_vars
    /\ [](/\ \A i \in 1..Len(reports) :
                /\ reports[i] = (i - 1) * ReportTicks
                /\ now - start_time >= reports[i]
           /\ next_t = Len(reports) * ReportTicks)

(* After a stall that left the boundaries 1 s and 2 s behind, the thread    *)
(* has just printed 1 s, at an elapsed time of 2 s or more, and has gone    *)
(* to its sleep with 2 s still to print.                                    *)
C15_Witness ==
    /\ reports = <<0, ReportTicks>>
    /\ rpc = "sleep" /\ rwake = now + ReportPollTicks
    /\ next_t = 2 * ReportTicks
    /\ now - start_time >= next_t

(* C16: without an exception the finalizer is entered only from the drain   *)
(* loop, with every section handled and get_busy() false; while get_busy()  *)
(* stays true run_show stays in the drain loop; and once it is false in     *)
(* the drain loop, run_show reaches the finalizer.                          *)
C16_Step ==
    /\ (pc # "finally" /\ pc' = "finally" /\ exc' = "none") =>
          /\ pc = "drain" /\ ~busy
          /\ idx = nSegs /\ Len(outcome) = nSegs
    /\ (pc \in {"drain", "drain_sleep"} /\ busy /\ busy') =>
          pc' \in {"drain", "drain_sleep"}
C16_DrainThenDone ==
    /\ [][C16_Step]_vars
    /\ ((pc = "drain" /\ ~busy) ~> (pc = "finally" /\ exc = "none"))

(* The finalizer is entered on the normal path after a two-section timeline *)
(* and a playback that outlasted it.                                        *)
C16_Witness ==
    /\ pc = "finally" /\ exc = "none"
    /\ nSegs = 2 /\ outcome = <<"dispatched", "dispatched">>
    /\ ~busy

(* C17: when play_song raises, run_show has exited with that exception,     *)
(* with no thread started, no section fetched, no routine called, nothing   *)
(* printed by a thread and every channel as the registry was built: off.    *)
C17_PlaybackFailureAborts ==
    exc = "FileNotFoundError" =>
        /\ pc = "exited"
        /\ rpc = "none" /\ reports = <<>> /\ ~stop_event
        /\ idx = 0 /\ outcome = <<>> /\ warnings = 0
        /\ frame = NoFrame
        /\ ~busy
        /\ AllOff(channels)

(* play_song raised for a show that has two sections. *)
C17_Witness ==
    /\ exc = "FileNotFoundError" /\ pc = "exited"
    /\ nSegs = 2 /\ bpm # NoBpm

(* C20: every dispatched section's routine is invoked exactly once, with    *)
(* duration end - start however late the dispatch is, and with the options  *)
(* convert_beat_intervals gives when the show has a bpm, the section's own  *)
(* options when it has none; a section without options passes none, so the  *)
(* routine runs on its defaults.                                            *)
C20_Passed(key) ==
    IF key # "interval" /\ key \notin {"step_interval", "_interval"}
    THEN seg.options[key]
    ELSE IF bpm = NoBpm THEN seg.options[key]
    ELSE TicksOfSeconds(beats_to_seconds(seg.options[key], bpm[1]).val)
C20_Step ==
    /\ (pc = "dispatch" /\ pc' = "running") =>
          /\ frame.pc = "idle"
          /\ frame'.pc = "called"
          /\ frame'.fn = seg.pattern
          /\ frame'.duration = seg.end - seg.start
          /\ frame'.interval =
                IF IntervalParam(seg.pattern) \in DOMAIN seg.options
                THEN C20_Passed(IntervalParam(seg.pattern))
                ELSE ToTicks(DefaultIntervalMs(seg.pattern))
          /\ frame'.on_fraction =
                IF "on_fraction" \in DOMAIN seg.options
                THEN C20_Passed("on_fraction") ELSE DefaultOnFraction
          /\ DOMAIN seg.options \subseteq Params(seg.pattern)
          /\ outcome' = Append(outcome, "dispatched")
          /\ Len(outcome') = idx
          /\ seg' = seg
    /\ (frame.pc # "called" /\ frame'.pc = "called") =>
          (pc = "dispatch" /\ pc' = "running")
    /\ (Len(outcome') > Len(outcome) /\ outcome'[Len(outcome')] = "dispatched") =>
          (pc = "dispatch" /\ pc' = "running")
    /\ (pc = "running" /\ pc' # "running") => idx' = idx /\ pc' \in {"for", "finally"}
C20_DispatchedOnceAsDeclared == [][C20_Step]_vars
C20_Witness ==
    /\ pc = "running" /\ frame.pc = "called"
    /\ bpm = <<120>>
    /\ seg.options = ("interval" :> 2)
    /\ frame.fn = seg.pattern
    /\ frame.interval = TicksPerSecond
    /\ frame.t0 - start_time > seg.start
    /\ frame.duration = seg.end - seg.start
    /\ outcome[idx] = "dispatched"

(* C21: the run of the whole example show dispatches blink_all, which       *)
(* alternates all on / all off every 0.5 s and ends off; prints exactly one *)
(* warning for the unknown pattern and skips it; dispatches all_off at 3 s  *)
(* without error; waits for playback to end; and finishes with both         *)
(* channels off and the timestamp thread told to stop.                      *)
C21_WholeShow == nSegs = Len(ExampleSections)
C21_EndToEnd ==
    /\ (C21_WholeShow /\ pc = "exited" /\ Spawned) =>
          /\ outcome = <<"dispatched", "skipped_unknown", "dispatched">>
          /\ warnings = 1
          /\ exc = "none"
          /\ ~busy /\ AllOff(channels) /\ stop_event
    /\ (C21_WholeShow /\ pc = "finally") => ~busy
    /\ (C21_WholeShow /\ frame.fn = "blink_all" /\ frame.pc = "sleep") =>
          /\ frame.interval = TicksPerSecond \div 2
          /\ IF frame.ticks % 2 = 1 THEN AllOn(channels) ELSE AllOff(channels)

(* C22: when run_show dispatches a section naming all_off or all_on, the    *)
(* call raises nothing, returns without sleeping, leaves every channel off  *)
(* (all_off) or on (all_on), and run_show goes on to the next section.      *)
C22_Step ==
    /\ (pc = "dispatch" /\ pc' # "dispatch" /\ seg.pattern \in OneShotRoutines
           /\ DOMAIN seg.options = {}) =>
          /\ exc' = "none"
          /\ pc' = "running"
          /\ frame'.fn = seg.pattern
    /\ (pc = "running" /\ pc' # "running" /\ frame.fn \in OneShotRoutines) =>
          /\ pc' = "for"
          /\ frame.pc = "returned" /\ frame.ticks = 0
          /\ IF frame.fn = "all_off" THEN AllOff(channels') ELSE AllOn(channels')
C22_OneShotsDispatch == [][C22_Step]_vars

(* C25: run_show calls only the routines of the library: a section whose    *)
(* pattern is not one of them, another attribute of the module (_safe_on,   *)
(* TREE_NAMES, time) included, is treated as unknown: skipped with one      *)
(* warning, never called, and the loop goes on.                             *)
C25_Step ==
    /\ (pc = "dispatch" /\ pc' # "dispatch" /\ seg.pattern \notin Routines) =>
          /\ warnings' = warnings + 1
          /\ outcome' = Append(outcome, "skipped_unknown")
          /\ frame' = frame
          /\ pc' = "for" /\ exc' = "none"
    /\ frame'.fn \in Routines \cup {"none"}
C25_OnlyCatalogRoutines == [][C25_Step]_vars

(* C32: once run_show has set the event, timestamp_printer prints at most   *)
(* one more line, that of an iteration that had passed its loop test        *)
(* before, and then stops: an iteration that would start after the event    *)
(* was set does not start.                                                  *)
C32_Step ==
    /\ stop_event => stop_event'
    /\ (stop_event /\ reports' # reports) =>
          /\ rpc = "body" /\ rpc' = "sleep"
          /\ Len(reports') = Len(reports) + 1
    /\ (stop_event /\ rpc = "sleep" /\ rpc' # rpc) => rpc' = "check"
    /\ (stop_event /\ rpc = "check" /\ rpc' # rpc) => rpc' = "done"
    /\ rpc = "done" => (rpc' = "done" /\ reports' = reports)
C32_AtMostOneMoreReport == [][C32_Step]_vars
C32_Witness ==
    /\ stop_event /\ rpc = "body"
    /\ now - start_time >= next_t
    /\ Len(reports) >= 1

(* C33: with a bpm <= 0, run_show fails with ValueError before playback is  *)
(* started: start_time is never taken, the timestamp thread is not spawned, *)
(* no section is fetched or dispatched and no channel changes state.        *)
C33_BadTempo == bpm # NoBpm /\ bpm[1] <= 0
C33_InvalidTempoAborts ==
    C33_BadTempo =>
       /\ pc \in {"start", "exited"}
       /\ pc = "exited" => exc = "ValueError"
       /\ ~busy /\ start_time = 0 /\ now = 0
       /\ ~Spawned /\ reports = <<>> /\ ~stop_event
       /\ idx = 0 /\ outcome = <<>> /\ warnings = 0
       /\ frame = NoFrame
       /\ AllOff(channels)
C33_Witness ==
    /\ bpm \in {<<0>>, <<-60>>}
    /\ nSegs = MaxSegs
    /\ pc = "exited" /\ exc = "ValueError"
    /\ ~busy /\ ~Spawned

----------------------------------------------------------------------------
(* Properties of the pattern library, for a direct caller                   *)

(* C9 as stated: after any routine returns, every channel is off. *)
C9_AllOffAfterReturn ==
    frame.pc = "returned" => AllOff(channels)

(* C9 amended: after a routine returns, every channel is off, except that   *)
(* all_on leaves every channel on and that a routine whose group has no     *)
(* member in the registry leaves the channels as they were.                 *)
C9_AllOffAfterReturnAmended ==
    frame.pc = "returned" =>
        IF frame.fn = "all_on" THEN AllOn(channels)
        ELSE IF GroupPresent(frame.fn, channels) = {} THEN channels = frame.pre
        ELSE AllOff(channels)

(* A timed routine called with duration 0 while a channel was on has        *)
(* returned.                                                                *)
C9_Witness ==
    /\ frame.pc = "returned" /\ frame.fn \in TimedRoutines
    /\ frame.duration = 0
    /\ \E n \in DOMAIN frame.pre : frame.pre[n]
    /\ GroupPresent(frame.fn, channels) # {}
    /\ AllOff(channels)

(* C10: a grouped routine called on a registry without member of its group  *)
(* returns without having slept, raises nothing and leaves the channels as  *)
(* they were.                                                               *)
GroupedRoutines == {"wave_trees", "trees_cascade", "chase_bulbs", "wave_all", "sparkle"}
C10_EmptyGroupNoEffect ==
    (frame.fn \in GroupedRoutines /\ GroupPresent(frame.fn, channels) = {}) =>
        /\ frame.pc \in {"called", "returned"}
        /\ frame.ticks = 0
        /\ frame.exc = "none"
        /\ channels = frame.pre

(* wave_trees has returned on a registry without tree and with a bulb on. *)
C10_Witness ==
    /\ frame.fn = "wave_trees" /\ frame.pc = "returned"
    /\ GroupPresent(frame.fn, channels) = {}
    /\ \E n \in DOMAIN channels : channels[n]
    /\ channels = frame.pre

(* C11: when the registry lacks some of the names a routine is written      *)
(* against, the routine keeps the registry's set of names, raises nothing   *)
(* but the ValueError of a negative interval, shows its pattern on the      *)
(* channels that are present, and returns with them in its end state: off,  *)
(* or as they were when no member of its group is present.                  *)
C11_Partial == NamesReferred(frame.fn) \ DOMAIN channels # {}
C11_MissingNamesHarmless ==
    C11_Partial =>
        /\ DOMAIN channels = DOMAIN frame.pre
        /\ frame.exc # "none" => (frame.exc = "ValueError" /\ frame.interval < 0)
        /\ frame.pc = "returned" =>
              IF GroupPresent(frame.fn, channels) = {} THEN channels = frame.pre
              ELSE AllOff(channels)
        /\ (frame.fn = "alternate_trees_and_bulbs" /\ frame.pc = "sleep") =>
              \A n \in DOMAIN channels :
                  channels[n] = IF n \in Range(TREE_NAMES) THEN ~frame.state
                                ELSE IF n \in Range(BULB_NAMES) THEN frame.state
                                ELSE frame.pre[n]

(* alternate_trees_and_bulbs has shown both of its phases on a registry     *)
(* holding only T1 and B1 and has returned.                                 *)
C11_Witness ==
    /\ frame.fn = "alternate_trees_and_bulbs" /\ frame.pc = "returned"
    /\ DOMAIN channels = {"T1", "B1"}
    /\ frame.ticks >= 2
    /\ AllOff(channels)

(* C23: a time-driven routine called with a positive interval on a registry *)
(* where its group has a member terminates as time advances, does not       *)
(* return before its duration has elapsed, starts no new cycle of its loop  *)
(* once the duration has elapsed, and nothing but its own steps moves it    *)
(* or the channels while it runs.                                           *)
C23_Pre ==
    /\ frame.fn \in TimedRoutines
    /\ frame.interval > 0
    /\ GroupPresent(frame.fn, frame.pre) # {}
C23_Running == frame.pc \in {"called", "sleep"}
C23_AtCycleStart ==
    CASE frame.fn \in {"wave_trees", "wave_all"} -> frame.idx = 0
      [] frame.fn = "trees_cascade" -> frame.phase = "on" /\ frame.idx = 0
      [] frame.fn = "finale_flash" -> frame.phase # "hold"
      [] OTHER -> TRUE
C23_Step ==
    /\ (C23_Pre /\ C23_Running /\ frame' # frame /\ C23_AtCycleStart
           /\ now >= EndOf) =>
          IF frame.fn = "finale_flash"
          THEN frame'.phase = "hold" /\ frame'.wake = now + HoldTicks
          ELSE frame'.pc = "returned"
    /\ (C23_Pre /\ C23_Running /\ <<frame, channels>>' # <<frame, channels>>) =>
          /\ Ready
          /\ frame'.fn = frame.fn /\ frame'.t0 = frame.t0
          /\ frame'.duration = frame.duration /\ frame'.interval = frame.interval
          /\ frame'.pc \in {"sleep", "returned"}
          /\ frame.pc = "sleep" => frame'.end = frame.end
C23_RunsToCompletion ==
    /\ [][C23_Step]_vars
    /\ []((C23_Pre /\ frame.pc = "returned") => now >= frame.t0 + frame.duration)
    /\ ((C23_Pre /\ frame.pc = "called") ~> (C23_Pre /\ frame.pc = "returned"))
C23_Witness ==
    /\ C23_Pre /\ frame.pc = "returned"
    /\ frame.fn = "wave_all"
    /\ frame.duration = MaxDuration
    /\ frame.ticks >= 2
    /\ now >= frame.t0 + frame.duration

(* C26: during blink_all all channels of the registry share one state at    *)
(* every tick; the ticks alternate all on, all off, starting with all on;   *)
(* a tick is taken only while the duration has not elapsed and the next one *)
(* an interval later; the routine returns with all channels off, whether    *)
(* its last tick was an on tick or an off tick.                             *)
C26_Blinking == frame.fn = "blink_all"
C26_Step ==
    (C26_Blinking /\ frame' # frame /\ frame.pc \in {"called", "sleep"}) =>
       /\ Ready
       /\ IF now < EndOf
          THEN /\ frame'.ticks = frame.ticks + 1 \/ frame'.pc = "raised"
               /\ IF frame.ticks % 2 = 0 THEN AllOn(channels') ELSE AllOff(channels')
               /\ frame'.pc = "sleep" => frame'.wake = now + frame.interval
          ELSE /\ frame'.pc = "returned"
               /\ frame'.ticks = frame.ticks
               /\ AllOff(channels')
C26_BlinkAlternates ==
    /\ [][C26_Step]_vars
    /\ []((C26_Blinking /\ frame.pc = "sleep") =>
             /\ AllOn(channels) \/ AllOff(channels)
             /\ IF frame.ticks % 2 = 1 THEN AllOn(channels) ELSE AllOff(channels))
    /\ []((C26_Blinking /\ frame.pc = "returned") => AllOff(channels))
C26_Witness ==
    /\ C26_Blinking /\ frame.pc = "returned"
    /\ frame.ticks = 1
    /\ Cardinality(DOMAIN channels) = MaxChannels
    /\ AllOff(channels)

(* C27: during alternate_trees_and_bulbs, at every tick one of the two      *)
(* groups has all its present members on and the other all its present      *)
(* members off; the lit group alternates from tick to tick, starting with   *)
(* the bulbs; channels of neither group keep their state until the closing  *)
(* all_off.                                                                 *)
C27_Alternating == frame.fn = "alternate_trees_and_bulbs"
C27_Lit(ch, group) == \A n \in Range(group) \cap DOMAIN ch : ch[n]
C27_Dark(ch, group) == \A n \in Range(group) \cap DOMAIN ch : ~ch[n]
C27_Others(ch) == DOMAIN ch \ (Range(TREE_NAMES) \cup Range(BULB_NAMES))
C27_Step ==
    (C27_Alternating /\ frame' # frame /\ frame.pc \in {"called", "sleep"}) =>
       /\ Ready
       /\ IF now < EndOf
          THEN /\ frame'.ticks = frame.ticks + 1 \/ frame'.pc = "raised"
               /\ IF frame.ticks % 2 = 0
                  THEN C27_Lit(channels', BULB_NAMES) /\ C27_Dark(channels', TREE_NAMES)
                  ELSE C27_Lit(channels', TREE_NAMES) /\ C27_Dark(channels', BULB_NAMES)
               /\ \A n \in C27_Others(channels) : channels'[n] = channels[n]
          ELSE frame'.pc = "returned" /\ AllOff(channels')
C27_ZonesAlternate ==
    /\ [][C27_Step]_vars
    /\ []((C27_Alternating /\ frame.pc = "sleep") =>
             /\ IF frame.ticks % 2 = 1
                THEN C27_Lit(channels, BULB_NAMES) /\ C27_Dark(channels, TREE_NAMES)
                ELSE C27_Lit(channels, TREE_NAMES) /\ C27_Dark(channels, BULB_NAMES)
             /\ \A n \in C27_Others(channels) : channels[n] = frame.pre[n])
C27_Witness ==
    /\ C27_Alternating /\ frame.pc = "sleep"
    /\ frame.ticks = 2
    /\ DOMAIN channels = {"T1", "Star"}
    /\ channels["T1"] /\ channels["Star"] /\ frame.pre["Star"]

(* C28: during wave_trees and chase_bulbs, at every tick exactly one        *)
(* channel of the whole registry is on; it is a present member of the       *)
(* routine's group; successive ticks light the present members in the       *)
(* order of TREE_NAMES / BULB_NAMES, the first again after the last.        *)
C28_Waving == frame.fn \in {"wave_trees", "chase_bulbs"}
C28_Group == IF frame.fn = "wave_trees" THEN TREE_NAMES ELSE BULB_NAMES
C28_Present == SelectSeq(C28_Group, LAMBDA n : n \in DOMAIN channels)
C28_OnSet(ch) == {n \in DOMAIN ch : ch[n]}
C28_Member(t) == C28_Present[((t - 1) % Len(C28_Present)) + 1]
C28_Step ==
    (C28_Waving /\ frame' # frame /\ frame.pc \in {"called", "sleep"}
       /\ frame'.pc \in {"sleep", "raised"}) =>
       /\ C28_Present # <<>>
       /\ C28_OnSet(channels') = {C28_Member(frame.ticks + 1)}
C28_OneAtATime ==
    /\ [][C28_Step]_vars
    /\ []((C28_Waving /\ frame.pc = "sleep") =>
             /\ Cardinality(C28_OnSet(channels)) = 1
             /\ C28_OnSet(channels) \subseteq Range(C28_Group)
             /\ C28_OnSet(channels) = {C28_Member(frame.ticks)})
C28_Witness ==
    /\ frame.fn = "wave_trees" /\ frame.pc = "sleep"
    /\ DOMAIN channels = {"T1", "BigTree"}
    /\ frame.ticks = 3
    /\ channels["T1"] /\ ~channels["BigTree"]

(* C29: during wave_all, at every tick the channels that are on are exactly *)
(* the two members of one pair (T1+B1, T2+B2, T3+B3, BigTree+B4) and all    *)
(* others are off; the pairs are visited in that order, cyclically; a pair  *)
(* is visited only if both its members are in the registry, so a channel    *)
(* whose partner is absent is never lit.                                    *)
C29_Pairs ==
    << <<"T1", "B1">>, <<"T2", "B2">>, <<"T3", "B3">>, <<"BigTree", "B4">> >>
C29_Whole == SelectSeq(C29_Pairs, LAMBDA p : {p[1], p[2]} \subseteq DOMAIN channels)
C29_Visited(t) == C29_Whole[((t - 1) % Len(C29_Whole)) + 1]
C29_Lonely ==
    {n \in DOMAIN channels :
        \E p \in Range(C29_Pairs) : n \in Range(p) /\ ~(Range(p) \subseteq DOMAIN channels)}
C29_Step ==
    (frame.fn = "wave_all" /\ frame' # frame /\ frame.pc \in {"called", "sleep"}
       /\ frame'.pc \in {"sleep", "raised"}) =>
       /\ C29_Whole # <<>>
       /\ C28_OnSet(channels') = Range(C29_Visited(frame.ticks + 1))
C29_PairAtATime ==
    /\ [][C29_Step]_vars
    /\ []((frame.fn = "wave_all" /\ frame.pc = "sleep") =>
             /\ C28_OnSet(channels) = Range(C29_Visited(frame.ticks))
             /\ Cardinality(C28_OnSet(channels)) = 2
             /\ \A n \in C29_Lonely : ~channels[n])
C29_Witness ==
    /\ frame.fn = "wave_all" /\ frame.pc = "sleep"
    /\ DOMAIN channels = {"T1", "B1", "T2", "B2"}
    /\ frame.ticks = 3
    /\ C28_OnSet(channels) = {"T1", "B1"}
C29_WitnessLonely ==
    /\ frame.fn = "wave_all" /\ frame.pc = "sleep"
    /\ DOMAIN channels = {"T1", "B1", "T3"}
    /\ frame.pre["T3"] /\ ~channels["T3"]

(* C30: during trees_cascade with n present trees each cycle has 2n ticks:  *)
(* at the k-th tick of the on phase exactly the first k trees are on, at    *)
(* the k-th tick of the off phase exactly the first k trees are off and the *)
(* others still on; every cycle ends with all trees off; channels outside   *)
(* the group keep their state until the closing all_off.                    *)
C30_Trees == SelectSeq(TREE_NAMES, LAMBDA n : n \in DOMAIN channels)
C30_First(k) == {C30_Trees[i] : i \in 1..k}
C30_Pos(t) == (t - 1) % (2 * Len(C30_Trees))
C30_LitTrees(ch) == {n \in Range(C30_Trees) : ch[n]}
C30_Outside(ch) == DOMAIN ch \ Range(TREE_NAMES)
C30_Exact(ch, t) ==
    LET n == Len(C30_Trees)
        pos == C30_Pos(t)
    IN IF pos < n THEN C30_LitTrees(ch) = C30_First(pos + 1)
       ELSE C30_LitTrees(ch) = Range(C30_Trees) \ C30_First(pos - n + 1)
C30_Cascading == frame.fn = "trees_cascade" /\ frame.pc = "sleep"
C30_Cascade ==
    C30_Cascading =>
       /\ C30_Trees # <<>>
       /\ C30_Exact(channels, frame.ticks)
       /\ C30_Pos(frame.ticks) = 2 * Len(C30_Trees) - 1 => C30_LitTrees(channels) = {}
       /\ \A n \in C30_Outside(channels) : channels[n] = frame.pre[n]

(* C30 amended: as stated, but in the on phase of the first cycle a tree    *)
(* that was on when the routine was called and has not been reached yet is  *)
(* still on: the first k trees are on and the others are as they were at    *)
(* the call.  From the first off phase on, and in the first cycle of a call *)
(* made with the trees off, the lit trees are exactly those stated.         *)
C30_FirstOnPhase == frame.ticks <= Len(C30_Trees)
C30_CascadeFromCall ==
    C30_Cascading =>
       /\ C30_Trees # <<>>
       /\ IF C30_FirstOnPhase
          THEN C30_LitTrees(channels) =
                  C30_First(frame.ticks) \cup C30_LitTrees(frame.pre)
          ELSE C30_Exact(channels, frame.ticks)
       /\ C30_LitTrees(frame.pre) = {} => C30_Exact(channels, frame.ticks)
       /\ C30_Pos(frame.ticks) = 2 * Len(C30_Trees) - 1 => C30_LitTrees(channels) = {}
       /\ \A n \in C30_Outside(channels) : channels[n] = frame.pre[n]
C30_Witness ==
    /\ C30_Cascading
    /\ DOMAIN channels = {"T1", "T2"}
    /\ ~frame.pre["T1"] /\ frame.pre["T2"]
    /\ frame.ticks = 3
    /\ ~channels["T1"] /\ channels["T2"]
C30_WitnessSecondCycle ==
    /\ C30_Cascading
    /\ DOMAIN channels = {"T1", "B1"}
    /\ frame.pre["B1"] /\ channels["B1"]
    /\ frame.ticks = 3 /\ channels["T1"]

(* C31: finale_flash strobes for only a part of its declared duration: the  *)
(* all-on hold and the final all-off take place inside the duration, so     *)
(* the call, hold included, does not outlast the duration by the length of  *)
(* the hold; its last two channel operations are all_on, then all_off.      *)
C31_HoldInsideDuration ==
    (frame.fn = "finale_flash" /\ frame.phase = "hold") =>
       /\ frame.wake <= frame.t0 + frame.duration
       /\ frame.pc = "sleep" => AllOn(channels)
       /\ frame.pc = "returned" => AllOff(channels)

----------------------------------------------------------------------------
(* Properties of the registries, for a caller of their operations           *)

(* C12: after on(name) or off(name), on either registry, the set of names   *)
(* is as before and nothing was raised; for a registered name that channel  *)
(* is on (off) and every other channel is as before; for an unregistered    *)
(* name every channel is as before.                                         *)
C12_OnOffFrame ==
    frame.fn \in {"gpio.on", "gpio.off"} =>
        LET name == frame.names[1]
        IN /\ DOMAIN channels = DOMAIN frame.pre
           /\ frame.exc = "none" /\ exc = "none"
           /\ IF name \in DOMAIN frame.pre
              THEN /\ channels[name] = (frame.fn = "gpio.on")
                   /\ \A n \in DOMAIN channels \ {name} : channels[n] = frame.pre[n]
              ELSE channels = frame.pre

(* on() was called on the simulator's registry with a name it does not      *)
(* hold, while a channel was on.                                            *)
C12_Witness ==
    /\ pc = "simulator" /\ frame.fn = "gpio.on"
    /\ frame.names[1] \notin DOMAIN channels
    /\ \E n \in DOMAIN channels : channels[n]
    /\ channels = frame.pre

(* C13: after all_off(), on either registry and from any state of it, the   *)
(* set of names is as before, nothing was raised and every channel is off;  *)
(* an all_off() that follows an all_off() changes nothing.  Likewise for    *)
(* all_on() with every channel on.                                          *)
C13_AllOffTotalIdempotent ==
    /\ frame.fn = "gpio.all_off" =>
          /\ DOMAIN channels = DOMAIN frame.pre
          /\ frame.exc = "none" /\ exc = "none"
          /\ AllOff(channels)
          /\ frame.idx = 2 => channels = frame.pre
    /\ frame.fn = "gpio.all_on" =>
          /\ DOMAIN channels = DOMAIN frame.pre
          /\ frame.exc = "none" /\ exc = "none"
          /\ AllOn(channels)
          /\ frame.idx = 2 => channels = frame.pre

(* all_off() was called right after another all_off() on a registry that    *)
(* holds channels.                                                          *)
C13_Witness ==
    /\ frame.fn = "gpio.all_off" /\ frame.idx = 2
    /\ pc = "harness" /\ DOMAIN channels # {}
    /\ AllOff(channels)

----------------------------------------------------------------------------
(* Properties of the normalizer, for a caller of its functions              *)

(* What beats_to_seconds gives back: ValueError and no value for bpm <= 0;  *)
(* for bpm > 0 a double that is at most two doubles away from the double    *)
(* nearest to the real number 60 * beats / bpm (the quotient is rounded,    *)
(* then the product), has its sign, is 0 for no beats and 1.0 for 1 beat at *)
(* 60 bpm.                                                                  *)
C18_ValueOrError ==
    call.fn = "beats_to_seconds" =>
        IF call.bpm <= 0 THEN call.ret = Raised("ValueError")
        ELSE /\ call.ret.exc = "none"
             /\ call.ret.val \in FloatsNear(FloatDiv(60 * call.beats, call.bpm), 2)
             /\ (call.beats = 1 /\ call.bpm = 60) => call.ret.val = FromInt(1)

(* C18 as stated: beats_to_seconds is (beats / bpm) * 60 for bpm > 0, 1.0   *)
(* for (1, 60), an error for bpm <= 0, and additive and homogeneous in      *)
(* beats: f(a) + f(c) = f(a + c) and k * f(a) = f(k * a).                   *)
C18_LinearInBeats ==
    /\ C18_ValueOrError
    /\ (call.fn = "additive" /\ call.bpm > 0) => call.sum = call.ret_sum.val
    /\ (call.fn = "homogeneous" /\ call.bpm > 0) => call.scaled = call.ret_scaled.val

(* C18 amended: the value and the error as stated, the value up to its two  *)
(* roundings; additive and homogeneous up to the rounding of the double     *)
(* operations for whole numbers a, c and k that are not negative: f(a) +    *)
(* f(c) and f(a + c), and k * f(a) and f(k * a), are at most five doubles   *)
(* apart (the two sides carry five roundings between them).                 *)
C18_LinearUpToRounding ==
    /\ C18_ValueOrError
    /\ (call.fn = "additive" /\ call.bpm > 0 /\ call.a >= 0 /\ call.c >= 0) =>
          call.sum \in FloatsNear(call.ret_sum.val, 5)
    /\ (call.fn = "homogeneous" /\ call.bpm > 0 /\ call.a >= 0 /\ call.k >= 0) =>
          call.scaled \in FloatsNear(call.ret_scaled.val, 5)

(* The sum of the seconds of 1 beat and of 2 beats at 7 bpm is a float next *)
(* to the seconds of 3 beats.                                               *)
C18_Witness ==
    /\ call.fn = "additive" /\ call.bpm = 7 /\ call.a = 1 /\ call.c = 2
    /\ call.sum # call.ret_sum.val
    /\ call.sum \in FloatsNear(call.ret_sum.val, 1)

(* C19: convert_beat_intervals returns a mapping with exactly the keys of   *)
(* its input, in which every key equal to 'interval' or ending in           *)
(* '_interval' maps to beats_to_seconds(value, bpm) and every other key     *)
(* maps to its original value; the input mapping is what it was before the  *)
(* call.  {interval: 2, color: 5} at bpm 120 gives {interval: 1.0,          *)
(* color: 5}.  The call raises exactly when a beats_to_seconds it makes     *)
(* does.                                                                    *)
C19_Example == [interval |-> 2, color |-> 5]
C19_NormalizeKeepsKeys ==
    call.fn = "convert_beat_intervals" =>
       /\ call.after = call.options
       /\ call.ret.exc # "none" <=>
             (call.bpm <= 0 /\ \E key \in DOMAIN call.options : IsIntervalKey(key))
       /\ call.ret.exc = "none" =>
             /\ DOMAIN call.ret.val = DOMAIN call.options
             /\ \A key \in DOMAIN call.options :
                   IF key = "interval" \/ key \in {"step_interval", "_interval"}
                   THEN /\ beats_to_seconds(call.options[key], call.bpm).exc = "none"
                        /\ call.ret.val[key] = beats_to_seconds(call.options[key], call.bpm).val
                   ELSE call.ret.val[key] = call.options[key]
       /\ (call.options = C19_Example /\ call.bpm = 120) =>
             call.ret = Returned([interval |-> FromInt(1), color |-> 5])
C19_Witness ==
    /\ call.fn = "convert_beat_intervals"
    /\ call.options = C19_Example /\ call.bpm = 120
    /\ call.ret.exc = "none"
    /\ DOMAIN call.ret.val = {"interval", "color"}
    /\ call.ret.val["interval"] = FromInt(1)
    /\ call.ret.val["color"] = 5
    /\ call.after = C19_Example

----------------------------------------------------------------------------
(* Properties of the simulator against run_show                             *)

(* C24: for one show file run_simulation skips the sections run_show skips  *)
(* and calls, for every other section, the same routine with the same       *)
(* duration and the same option values, interval options under a bpm        *)
(* included.                                                                *)
C24_SameInvocations ==
    call.fn = "section" => call.simulator = call.runner

----------------------------------------------------------------------------
(* Properties of generate_show                                              *)

(* C34: the timeline generate_show writes is ordered and does not overlap:  *)
(* every section has end > start and starts no earlier than the section     *)
(* before it ends, the regular sections and the three finale sections       *)
(* alike.                                                                   *)
C34_OrderedTimeline ==
    (call.fn = "generate_show" /\ call.stage = "written") =>
       \A i \in 1..Len(call.sections) :
          /\ call.sections[i].end > call.sections[i].start
          /\ i > 1 => call.sections[i].start >= call.sections[i - 1].end

----------------------------------------------------------------------------
(* Properties of run_simulation                                             *)

(* C35: once the routine started for a section has ended, by a return or by *)
(* an exception, the simulator stops waiting for it without the user        *)
(* quitting: the loop that waits for the pattern thread does not go into    *)
(* another frame at a test it makes after the thread has ended.             *)
C35_ProceedsAfterRoutineEnds ==
    [][(pc = "visualize" /\ ThreadEnded /\ ~call.in_tick)
          => ~(pc' = "visualize" /\ call'.in_tick)]_vars

====
